---------------------------- MODULE Spec2Model ----------------------------
(***************************************************************************)
(* A model of the MahjongAI repository: the tile model (tiles.py), the     *)
(* meld/pair rules (mahjong_logic.py), the agent's hand evaluation and     *)
(* discard choice (agent.py), the game state (game_state.py), the batch    *)
(* engine MahjongGame.play_game (game_engine.py) and the interactive       *)
(* engine InteractiveMahjongGame (interactive_game.py).                    *)
(*                                                                         *)
(* Spec  is the batch engine, ISpec the interactive engine.  Both work on  *)
(* the same game state.                                                    *)
(***************************************************************************)
EXTENDS Integers, Sequences, FiniteSets, TLC

VARIABLES
    wall_tiles,      \* GameState.wall_tiles: the undrawn tiles, front first
    players,         \* GameState.players: seat -> PlayerState
    current_player,  \* GameState.current_player
    last_discarded,  \* GameState.last_discarded
    game_ended,      \* GameState.game_ended
    pc,              \* the position of play_game
    cp,              \* play_game's local variable current_player
    turn_count,      \* play_game's local variable turn_count (batch engine)
    claimed,         \* play_game's local variable claimed (batch engine)
    result,          \* <<v>> once play_game returned v, <<>> before
    winning_player,  \* InteractiveMahjongGame.winning_player: <<p>>, <<>> for None
    drawn_tile,      \* the tile the last draw_tile call returned
    claimant,        \* interactive engine: the seat whose claim was handled last
    inputs,          \* interactive engine: free human inputs already used
    action,          \* handle_human_turn's local action: the text entered, <<>> if none
    wins,            \* main's list wins: seat -> games counted for the seat
    game_num         \* main's loop variable: the games already counted

vars == <<wall_tiles, players, current_player, last_discarded, game_ended,
          pc, cp, turn_count, claimed, result, winning_player, drawn_tile,
          claimant, inputs, action, wins, game_num>>

\* The variables of main.py's batch driver, which no engine touches.
main_vars == <<wins, game_num>>

-----------------------------------------------------------------------------
(* Bounds of the model *)

\* The number of shuffles of the wall the batch engine is started from.
NumDeals == 11

-----------------------------------------------------------------------------
(* tiles.py *)

\* None where a Tile is expected: a record no tile equals.
NoTile == [type |-> "None", value |-> 0]

\* TileType, in the order the code enumerates it: [WAN, TONG, TIAO].
TileTypes == <<"Wan", "Tong", "Tiao">>

Tile(type, value) == [type |-> type, value |-> value]

Values == 1..9

Seats == 0..3

\* The rank of TileType.value ("Wan", "Tong", "Tiao") in Python's string
\* order, which is what the sort key (t.type.value, t.value) compares first.
TypeKey(type) ==
    CASE type = "Tiao" -> 1
      [] type = "Tong" -> 2
      [] type = "Wan"  -> 3

\* key=lambda t: (t.type.value, t.value), the pair encoded in one integer.
SortKey(t) == TypeKey(t.type) * 10 + t.value

SetMin(S) == CHOOSE x \in S : \A y \in S : x <= y

\* sorted(tiles, key=lambda t: (t.type.value, t.value))
RECURSIVE SortTiles(_)
SortTiles(tiles) ==
    IF tiles = <<>> THEN <<>>
    ELSE LET k == SetMin({SortKey(tiles[i]) : i \in DOMAIN tiles})
             IsMin(t) == SortKey(t) = k
             NotMin(t) == SortKey(t) # k
         IN  SelectSeq(tiles, IsMin) \o SortTiles(SelectSeq(tiles, NotMin))

\* sorted(values) for a list of integers
RECURSIVE SortInts(_)
SortInts(values) ==
    IF values = <<>> THEN <<>>
    ELSE LET k == SetMin({values[i] : i \in DOMAIN values})
             IsMin(v) == v = k
             NotMin(v) == v # k
         IN  SelectSeq(values, IsMin) \o SortInts(SelectSeq(values, NotMin))

\* list.remove(x): the first element equal to x is removed.
ListRemove(list, x) ==
    LET i == CHOOSE i \in 1..Len(list) :
                 list[i] = x /\ \A j \in 1..(i - 1) : list[j] # x
    IN  SubSeq(list, 1, i - 1) \o SubSeq(list, i + 1, Len(list))

\* Counter(tiles)[tile]
Count(tiles, tile) == Cardinality({i \in DOMAIN tiles : tiles[i] = tile})

\* [t for t in hand if t.type == tile.type and t.value == tile.value]
Matching(hand, tile) ==
    LET Same(t) == t.type = tile.type /\ t.value = tile.value
    IN  SelectSeq(hand, Same)

-----------------------------------------------------------------------------
(* mahjong_logic.py *)

is_valid_pair(tiles) ==
    /\ Len(tiles) = 2
    /\ tiles[1].type = tiles[2].type
    /\ tiles[1].value = tiles[2].value

RECURSIVE can_form_melds(_)
can_form_melds(tiles) ==
    IF tiles = <<>> THEN TRUE
    ELSE IF Len(tiles) % 3 # 0 THEN FALSE
    ELSE IF /\ tiles[1].type = tiles[2].type /\ tiles[2].type = tiles[3].type
            /\ tiles[1].value = tiles[2].value /\ tiles[2].value = tiles[3].value
         THEN can_form_melds(SubSeq(tiles, 4, Len(tiles)))
    ELSE LET SameType(t) == t.type = tiles[1].type
             first3 == SelectSeq(SubSeq(tiles, 1, 3), SameType)
             sorted_vals == SortInts([i \in DOMAIN first3 |-> first3[i].value])
         IN  IF Len(sorted_vals) = 3 /\ sorted_vals[3] - sorted_vals[1] = 2
             THEN can_form_melds(SubSeq(tiles, 4, Len(tiles)))
             ELSE FALSE

\* is_winning_hand trying only the first pair of equal neighbours.
is_winning_hand_first_pair(tiles) ==
    IF Len(tiles) # 14 THEN FALSE
    ELSE LET sorted_tiles == SortTiles(tiles)
             pairs == {i \in 1..(Len(sorted_tiles) - 1) :
                          is_valid_pair(<<sorted_tiles[i], sorted_tiles[i + 1]>>)}
         IN  /\ pairs # {}
             /\ can_form_melds(SubSeq(sorted_tiles, 1, SetMin(pairs) - 1)
                               \o SubSeq(sorted_tiles, SetMin(pairs) + 2, Len(sorted_tiles)))

\* is_winning_hand without the sort of its argument.
is_winning_hand_unsorted(tiles) ==
    IF Len(tiles) # 14 THEN FALSE
    ELSE \E i \in 1..(Len(tiles) - 1) :
            /\ is_valid_pair(<<tiles[i], tiles[i + 1]>>)
            /\ can_form_melds(SubSeq(tiles, 1, i - 1) \o SubSeq(tiles, i + 2, Len(tiles)))

is_winning_hand(tiles) ==
    IF Len(tiles) # 14 THEN FALSE
    ELSE LET sorted_tiles == SortTiles(tiles)
         IN  \E i \in 1..(Len(sorted_tiles) - 1) :
                /\ is_valid_pair(<<sorted_tiles[i], sorted_tiles[i + 1]>>)
                /\ can_form_melds(SubSeq(sorted_tiles, 1, i - 1)
                                  \o SubSeq(sorted_tiles, i + 2, Len(sorted_tiles)))

is_valid_meld(tiles) ==
    IF Len(tiles) # 3 THEN FALSE
    ELSE \/ \A i \in 1..3 : tiles[i].type = tiles[1].type /\ tiles[i].value = tiles[1].value
         \/ /\ \A i \in 1..3 : tiles[i].type = tiles[1].type
            /\ LET values == SortInts(<<tiles[1].value, tiles[2].value, tiles[3].value>>)
               IN  values = <<values[1], values[1] + 1, values[1] + 2>>

\* [tile] * 3 for the 27 tile identities, in the sorted order of the tiles.
AllPungs ==
    [n \in 1..27 |->
        LET tile == Tile(TileTypes[3 - ((n - 1) \div 9)], ((n - 1) % 9) + 1)
        IN  <<tile, tile, tile>>]

\* The sequences find_all_melds tries: the types in the order WAN, TONG,
\* TIAO, and start_value in range(1, 8).
AllSequences ==
    [n \in 1..21 |->
        LET tile_type == TileTypes[((n - 1) \div 7) + 1]
            start_value == ((n - 1) % 7) + 1
        IN  <<Tile(tile_type, start_value), Tile(tile_type, start_value + 1),
              Tile(tile_type, start_value + 2)>>]

\* find_all_melds with a pung entry only for a count of exactly 3.
find_all_melds_exactly3(tiles) ==
    LET IsPung(meld) == Count(tiles, meld[1]) = 3
        IsChow(sequence) == \A i \in 1..3 : Count(tiles, sequence[i]) > 0
    IN  SelectSeq(AllPungs, IsPung) \o SelectSeq(AllSequences, IsChow)

\* MahjongLogic.find_all_melds: the list melds.  The pung entries, one for
\* each tile of set(tiles) with a count of 3 or more, come in the iteration
\* order of a Python set, which no caller looks at; here they are in the
\* sorted order of the tiles.  The chow entries follow in the code's order.
find_all_melds(tiles) ==
    LET IsPung(meld) == Count(tiles, meld[1]) >= 3
        IsChow(sequence) == \A i \in 1..3 : Count(tiles, sequence[i]) > 0
    IN  SelectSeq(AllPungs, IsPung) \o SelectSeq(AllSequences, IsChow)

\* MahjongLogic.evaluate_waiting_tiles: the set waiting_tiles.
evaluate_waiting_tiles(hand) ==
    {test_tile \in {Tile(TileTypes[ty], value) : ty \in 1..3, value \in 1..9} :
        is_winning_hand(hand \o <<test_tile>>)}

-----------------------------------------------------------------------------
(* agent.py *)

\* evaluate_hand with terminal_score added to the total.
evaluate_hand_terminal(hand) ==
    IF hand = <<>> THEN 0
    ELSE LET IsTerminal(t) == t.value \in {1, 9}
             SameSuit(i, sorted) == sorted[i].type = sorted[i + 1].type
             sorted_hand == SortTiles(hand)
         IN  20 * Len(find_all_melds(hand))
             + 3 * Cardinality({t \in {hand[n] : n \in DOMAIN hand} : Count(hand, t) >= 2})
             + Cardinality({n \in 1..(Len(hand) - 1) :
                               /\ SameSuit(n, sorted_hand)
                               /\ sorted_hand[n + 1].value - sorted_hand[n].value <= 2})
             + Len(SelectSeq(hand, IsTerminal))

\* MahjongAgent.evaluate_hand, on the hand list of the agent's seat.  The
\* code computes meld_score * 2.0 + pair_score * 1.5 + sequence_potential * 1.0
\* in floating point; pair_score is even, so the value is an integer.
evaluate_hand(hand) ==
    IF hand = <<>> THEN 0
    ELSE LET all_melds == find_all_melds(hand)
             meld_score == Len(all_melds) * 10
             pair_score ==
                 2 * Cardinality({t \in {hand[i] : i \in DOMAIN hand} : Count(hand, t) >= 2})
             SeqPotential(ty) ==
                 LET OfType(t) == t.type = TileTypes[ty]
                     sel == SelectSeq(hand, OfType)
                     values == SortInts([i \in DOMAIN sel |-> sel[i].value])
                 IN  Cardinality({i \in 1..(Len(values) - 1) : values[i + 1] - values[i] <= 2})
             sequence_potential == SeqPotential(1) + SeqPotential(2) + SeqPotential(3)
         IN  meld_score * 2 + (pair_score * 15) \div 10 + sequence_potential

\* float("-inf"), the start value of best_score: below every score, and
\* evaluate_hand is never negative.
MinusInfinity == -1

\* One pass of the body of choose_discard's loop: the tile was removed from
\* the hand (removed: the list without it), the rest has the given score,
\* and the tile is appended again.
choose_discard_step(st, tile, removed, score) ==
    [hand |-> Append(removed, tile),
     best_discard |-> IF score > st.best_score THEN tile ELSE st.best_discard,
     best_score |-> IF score > st.best_score THEN score ELSE st.best_score]

\* The loop of MahjongAgent.choose_discard.  "for tile in hand" walks the
\* list by index while the body removes the tile (its first equal element)
\* and appends it again, so the list is reordered under the iteration.
\* st = [hand, best_discard, best_score]; i is the 0-based index.
RECURSIVE choose_discard_loop(_, _)
choose_discard_loop(st, i) ==
    IF i >= Len(st.hand) THEN st
    ELSE choose_discard_loop(
             choose_discard_step(st, st.hand[i + 1],
                                 ListRemove(st.hand, st.hand[i + 1]),
                                 evaluate_hand(ListRemove(st.hand, st.hand[i + 1]))),
             i + 1)

\* MahjongAgent.choose_discard: [best_discard, hand, best_score], the tile
\* returned (None for an empty hand), the hand list as the call leaves it,
\* and the score found.
choose_discard(hand) ==
    IF hand = <<>>
    THEN [hand |-> hand, best_discard |-> NoTile, best_score |-> MinusInfinity]
    ELSE choose_discard_loop(
             [hand |-> hand, best_discard |-> NoTile, best_score |-> MinusInfinity], 0)

-----------------------------------------------------------------------------
(* game_state.py *)

\* PlayerState.__init__
PlayerState == [hand |-> <<>>, revealed_melds |-> <<>>, discards |-> <<>>,
                is_waiting |-> FALSE]

\* GameState.initialise_tiles before the shuffle: 4 of each tile, by type
\* and value.
OrderedTiles ==
    [i \in 1..108 |-> Tile(TileTypes[((i - 1) \div 36) + 1], (((i - 1) % 36) \div 4) + 1)]

\* random.shuffle(self.wall_tiles): shuffle number k is the permutation
\* i -> (m * i + k) mod 108 of the ordered tiles, m the k-th multiplier
\* coprime to 108 (5, 7, 11, 13, ...).
Shuffle(k) ==
    LET m == 6 * (k \div 2) + (IF k % 2 = 1 THEN 5 ELSE 1)
    IN  [i \in 1..108 |-> OrderedTiles[((m * (i - 1) + k) % 108) + 1]]

\* A deal whose slices are one tile short.
DealtHand_short(wall, i) == SortTiles(SubSeq(wall, i * 13 + 1, (i + 1) * 13 - 1))

\* GameState.deal_initial_hands: the hand of seat i
DealtHand(wall, i) == SortTiles(SubSeq(wall, i * 13 + 1, (i + 1) * 13))

-----------------------------------------------------------------------------
(* game_engine.py: MahjongGame *)

max_turns == 100

hand_of(i) == players[i].hand

\* _can_claim_tile content with one matching tile in the hand.
can_claim_tile_single(player_idx, tile) == Len(Matching(hand_of(player_idx), tile)) >= 1

\* MahjongGame._can_claim_tile
can_claim_tile_batch(player_idx, tile) == Len(Matching(hand_of(player_idx), tile)) >= 2

\* _get_winner with the comparison turned round: no score is below -inf,
\* so winner stays -1.
get_winner_never == -1

\* MahjongGame._get_winner: the first seat with the highest evaluate_hand.
get_winner ==
    CHOOSE w \in Seats :
        /\ \A i \in Seats : evaluate_hand(hand_of(i)) <= evaluate_hand(hand_of(w))
        /\ \A i \in 0..(w - 1) : evaluate_hand(hand_of(i)) < evaluate_hand(hand_of(w))

\* The state after MahjongGame(): GameState.__init__ has shuffled the wall.
Init ==
    /\ \E k \in 1..NumDeals : wall_tiles = Shuffle(k)
    /\ players = [i \in Seats |-> PlayerState]
    /\ current_player = 0
    /\ last_discarded = NoTile
    /\ game_ended = FALSE
    /\ pc = "deal"
    /\ cp = 0
    /\ turn_count = 0
    /\ claimed = FALSE
    /\ result = <<>>
    /\ winning_player = <<>>
    /\ drawn_tile = NoTile
    /\ claimant = <<>>
    /\ inputs = 0
    /\ action = <<>>
    /\ wins = [i \in Seats |-> 0]
    /\ game_num = 0

\* The deal leaving the dealt tiles in the wall.
deal_initial_hands_keep_wall ==
    /\ players' = [i \in Seats |-> [players[i] EXCEPT !.hand = DealtHand(wall_tiles, i)]]
    /\ wall_tiles' = wall_tiles

\* GameState.deal_initial_hands
deal_initial_hands ==
    /\ players' = [i \in Seats |-> [players[i] EXCEPT !.hand = DealtHand(wall_tiles, i)]]
    /\ wall_tiles' = SubSeq(wall_tiles, 53, Len(wall_tiles))

\* draw_tile reading the front tile without popping it from the wall.
draw_tile_no_pop(player_idx) ==
    /\ wall_tiles # <<>>
    /\ wall_tiles' = wall_tiles
    /\ players' = [players EXCEPT ![player_idx].hand = Append(@, Head(wall_tiles))]
    /\ drawn_tile' = Head(wall_tiles)

\* GameState.draw_tile(player_idx) with tiles in the wall
draw_tile(player_idx) ==
    /\ wall_tiles # <<>>
    /\ wall_tiles' = Tail(wall_tiles)
    /\ players' = [players EXCEPT ![player_idx].hand = Append(@, Head(wall_tiles))]
    /\ drawn_tile' = Head(wall_tiles)

\* The discard recorded without hand.remove(discard).
discard_tile_keep(player_idx, hand, discard) ==
    /\ players' = [players EXCEPT ![player_idx].hand = hand,
                                  ![player_idx].discards = Append(@, discard)]
    /\ last_discarded' = discard

\* The discard put on top of the pile instead of at its end.
discard_tile_front(player_idx, hand, discard) ==
    /\ players' = [players EXCEPT ![player_idx].hand = ListRemove(hand, discard),
                                  ![player_idx].discards = <<discard>> \o @]
    /\ last_discarded' = discard

\* play_game's "Process discard": the tile leaves the hand (the list as
\* choose_discard left it) and joins the seat's discards.
discard_tile(player_idx, hand, discard) ==
    /\ players' = [players EXCEPT ![player_idx].hand = ListRemove(hand, discard),
                                  ![player_idx].discards = Append(@, discard)]
    /\ last_discarded' = discard

\* The turn passed on without the modulo.
next_player_no_wrap(p) == p + 1

\* (current_player + 1) % 4
next_player(p) == (p + 1) % 4

\* play_game up to the loop: the deal.
Deal ==
    /\ pc = "deal"
    /\ deal_initial_hands
    /\ pc' = "loop"
    /\ UNCHANGED <<current_player, last_discarded, game_ended, cp, turn_count,
                   claimed, result, winning_player, drawn_tile, claimant, inputs, action, main_vars>>

\* One more iteration of the while loop begins and draw_tile returns a tile.
Draw ==
    /\ pc = "loop"
    /\ ~game_ended /\ turn_count < max_turns
    /\ cp' = current_player
    /\ draw_tile(current_player)
    /\ pc' = "drawn"
    /\ UNCHANGED <<current_player, last_discarded, game_ended, turn_count,
                   claimed, result, winning_player, claimant, inputs, action, main_vars>>

\* The end of the loop with draw_tile leaving game_ended as it is when it
\* finds the wall empty.
LoopEnd_no_flag ==
    /\ pc = "loop"
    /\ \/ ~(~game_ended /\ turn_count < max_turns)
       \/ wall_tiles = <<>>
    /\ cp' = IF ~game_ended /\ turn_count < max_turns THEN current_player ELSE cp
    /\ drawn_tile' = IF ~game_ended /\ turn_count < max_turns THEN NoTile ELSE drawn_tile
    /\ result' = <<get_winner>>
    /\ pc' = "done"
    /\ UNCHANGED <<wall_tiles, players, current_player, last_discarded, game_ended,
                   turn_count, claimed, winning_player, claimant, inputs, action, main_vars>>

\* The loop ends: its condition fails, or draw_tile finds the wall empty (it
\* sets game_ended and returns None, and play_game breaks).  play_game
\* returns self._get_winner().
LoopEnd ==
    /\ pc = "loop"
    /\ \/ ~(~game_ended /\ turn_count < max_turns)
       \/ wall_tiles = <<>>
    /\ game_ended' = (game_ended \/ (turn_count < max_turns /\ wall_tiles = <<>>))
    /\ cp' = IF ~game_ended /\ turn_count < max_turns THEN current_player ELSE cp
    /\ drawn_tile' = IF ~game_ended /\ turn_count < max_turns THEN NoTile ELSE drawn_tile
    /\ result' = <<get_winner>>
    /\ pc' = "done"
    /\ UNCHANGED <<wall_tiles, players, current_player, last_discarded, turn_count,
                   claimed, winning_player, claimant, inputs, action, main_vars>>

\* The win check after the draw succeeds: play_game returns current_player.
SelfDrawWin ==
    /\ pc = "drawn"
    /\ is_winning_hand(hand_of(cp))
    /\ result' = <<cp>>
    /\ pc' = "done"
    /\ UNCHANGED <<wall_tiles, players, current_player, last_discarded, game_ended,
                   cp, turn_count, claimed, winning_player, drawn_tile, claimant, inputs, action, main_vars>>

\* play_game with the agent's choice: without a discard (an empty hand) it
\* breaks and returns self._get_winner(); else it processes the discard.
process_choice(chosen) ==
    IF chosen.best_discard = NoTile
    THEN /\ result' = <<get_winner>>
         /\ pc' = "done"
         /\ UNCHANGED <<players, last_discarded>>
    ELSE /\ discard_tile(cp, chosen.hand, chosen.best_discard)
         /\ pc' = "discarded"
         /\ UNCHANGED result

\* No win after the draw: the agent chooses the discard and play_game moves
\* it from the hand to the seat's discards.
Discard ==
    /\ pc = "drawn"
    /\ ~is_winning_hand(hand_of(cp))
    /\ process_choice(choose_discard(hand_of(cp)))
    /\ UNCHANGED <<wall_tiles, current_player, game_ended, cp, turn_count, claimed,
                   winning_player, drawn_tile, claimant, inputs, action, main_vars>>

\* The win test on the hands alone, the discard not added.
DiscardWinners_no_tile == {i \in Seats : i # cp /\ is_winning_hand(hand_of(i))}

\* The seats that win with the discard added to their hand.
DiscardWinners ==
    {i \in Seats : i # cp /\ is_winning_hand(Append(hand_of(i), last_discarded))}

\* The seats that can claim the discard.
Claimers == {i \in Seats : i # cp /\ can_claim_tile_batch(i, last_discarded)}

\* A seat wins from the discard: play_game returns the first such seat.
DiscardWin ==
    /\ pc = "discarded"
    /\ DiscardWinners # {}
    /\ result' = <<SetMin(DiscardWinners)>>
    /\ pc' = "done"
    /\ UNCHANGED <<wall_tiles, players, current_player, last_discarded, game_ended,
                   cp, turn_count, claimed, winning_player, drawn_tile, claimant, inputs, action, main_vars>>

\* Nobody wins from the discard and a seat can claim it: the first such
\* seat becomes the current player.
Claim ==
    /\ pc = "discarded"
    /\ DiscardWinners = {}
    /\ Claimers # {}
    /\ claimed' = TRUE
    /\ current_player' = SetMin(Claimers)
    /\ turn_count' = turn_count + 1
    /\ pc' = "loop"
    /\ UNCHANGED <<wall_tiles, players, last_discarded, game_ended, cp, result,
                   winning_player, drawn_tile, claimant, inputs, action, main_vars>>

\* Nobody wins from the discard or claims it: the turn passes on.
NoClaim ==
    /\ pc = "discarded"
    /\ DiscardWinners = {}
    /\ Claimers = {}
    /\ claimed' = FALSE
    /\ current_player' = next_player(cp)
    /\ turn_count' = turn_count + 1
    /\ pc' = "loop"
    /\ UNCHANGED <<wall_tiles, players, last_discarded, game_ended, cp, result,
                   winning_player, drawn_tile, claimant, inputs, action, main_vars>>

Next ==
    \/ Deal
    \/ Draw
    \/ LoopEnd
    \/ SelfDrawWin
    \/ Discard
    \/ DiscardWin
    \/ Claim
    \/ NoClaim

Spec == Init /\ [][Next]_vars

\* A step of play_game: it moves on to its next position.  Such a step is
\* possible as long as play_game has not returned.
Running == pc # "done" /\ pc' \in {"loop", "drawn", "discarded", "done"} \ {pc}

\* play_game runs on: the interpreter does not stop in the middle of the
\* call, so while play_game has not returned its position keeps moving.
FairSpec == Spec /\ WF_pc(Running)

-----------------------------------------------------------------------------
(* main.py: the batch driver *)

\* The games of a batch (num_games in main, 1000 there).
NumGames == 2

\* wins[winner]: a Python list index, a negative one counting from the end
\* of the four-element list.
list_index(i) == IF i < 0 THEN i + 4 ELSE i

\* game = MahjongGame(): a new game state with a newly shuffled wall, and
\* play_game at its start.
MahjongGame(k) ==
    /\ wall_tiles' = Shuffle(k)
    /\ players' = [i \in Seats |-> PlayerState]
    /\ current_player' = 0
    /\ last_discarded' = NoTile
    /\ game_ended' = FALSE
    /\ pc' = "deal"
    /\ cp' = 0
    /\ turn_count' = 0
    /\ claimed' = FALSE
    /\ result' = <<>>
    /\ drawn_tile' = NoTile

\* An exception is raised somewhere in play_game's try block (a print that
\* fails, no memory left): the except branch returns -1.
Fault ==
    /\ pc \in {"deal", "loop", "drawn", "discarded"}
    /\ result' = <<-1>>
    /\ pc' = "done"
    /\ UNCHANGED <<wall_tiles, players, current_player, last_discarded, game_ended,
                   cp, turn_count, claimed, winning_player, drawn_tile, claimant,
                   inputs, action, main_vars>>

\* main's loop body after play_game returned: wins[winner] += 1, and the
\* next iteration creates the next game, or the loop is over.
CountWin ==
    /\ pc = "done"
    /\ wins' = [wins EXCEPT ![list_index(result[1])] = @ + 1]
    /\ game_num' = game_num + 1
    /\ IF game_num + 1 < NumGames
       THEN \E k \in 1..NumDeals : MahjongGame(k)
       ELSE /\ pc' = "main_done"
            /\ UNCHANGED <<wall_tiles, players, current_player, last_discarded,
                           game_ended, cp, turn_count, claimed, result, drawn_tile>>
    /\ UNCHANGED <<winning_player, claimant, inputs, action>>

MNext ==
    \/ Next
    \/ Fault
    \/ CountWin

MSpec == Init /\ [][MNext]_vars

-----------------------------------------------------------------------------
(* Properties of the batch engine, checked under Spec *)

\* self.total_tiles = 3 * 9 * 4
total_tiles == 108

RECURSIVE SumOver(_, _)
SumOver(F(_), S) ==
    IF S = {} THEN 0
    ELSE LET x == CHOOSE x \in S : TRUE IN F(x) + SumOver(F, S \ {x})

\* |wall| + sum |hand_i| + 3 * sum |revealed_melds_i| + sum |discards_i|
TileTotal ==
    LET HandLen(i) == Len(players[i].hand)
        MeldLen(i) == Len(players[i].revealed_melds)
        DiscLen(i) == Len(players[i].discards)
    IN  Len(wall_tiles) + SumOver(HandLen, Seats) + 3 * SumOver(MeldLen, Seats)
        + SumOver(DiscLen, Seats)

\* C1: in every state of the batch engine's play_game (after the deal, each
\* draw, each discard and each claim decision) the wall, the hands, three
\* tiles per revealed meld and the discard piles add up to 108 tiles.
C1_Conservation == TileTotal = total_tiles

\* C1's case: a claim has been decided after draws and discards.
C1_Witness ==
    /\ pc = "loop" /\ claimed
    /\ Len(wall_tiles) < 56
    /\ Len(players[cp].discards) > 0

C4_ClaimFormsMeld ==
    [][Claim =>
        LET c == current_player'
        IN  /\ Len(players'[c].hand) = Len(players[c].hand) - 2
            /\ Len(players'[c].revealed_melds) = Len(players[c].revealed_melds) + 1
            /\ \E m \in 1..Len(players'[c].revealed_melds) :
                   \E j \in 1..3 : players'[c].revealed_melds[m][j] = last_discarded
            /\ pc' # "loop"]_vars

\* C7: after a discard every other seat is tested for a win with the tile
\* added to its 13 tiles, before any claim; if a test succeeds the game ends
\* at once with such a seat as winner, no claim made and the turn unchanged.
C7_DiscardWinFirst ==
    [][pc = "discarded" =>
        LET winners == {i \in Seats \ {cp} :
                           is_winning_hand(players[i].hand \o <<last_discarded>>)}
        IN  /\ \A i \in Seats \ {cp} : Len(players[i].hand) = 13
            /\ winners # {} =>
                  /\ pc' = "done"
                  /\ \E w \in winners : result' = <<w>>
                  /\ current_player' = current_player
                  /\ claimed' = claimed
                  /\ players' = players
                  /\ wall_tiles' = wall_tiles]_vars

\* C7's case: the game was won from a discard.
C7_Witness ==
    /\ pc = "done" /\ ~game_ended
    /\ Len(result) = 1 /\ result[1] # cp
    /\ is_winning_hand(players[result[1]].hand \o <<last_discarded>>)

\* C8: after a draw, a winning 14-tile hand ends the game with the drawing
\* seat as winner before any discard; otherwise the next step is exactly one
\* tile leaving that seat's hand for its discards, nothing else moving.
C8_WinOrOneDiscard ==
    [][pc = "drawn" =>
        IF is_winning_hand(players[cp].hand)
        THEN /\ pc' = "done" /\ result' = <<cp>>
             /\ players' = players /\ wall_tiles' = wall_tiles
        ELSE /\ pc' = "discarded"
             /\ wall_tiles' = wall_tiles
             /\ \A i \in Seats \ {cp} : players'[i] = players[i]
             /\ Len(players'[cp].discards) = Len(players[cp].discards) + 1
             /\ SubSeq(players'[cp].discards, 1, Len(players[cp].discards)) = players[cp].discards
             /\ LET d == players'[cp].discards[Len(players'[cp].discards)]
                IN  /\ d = last_discarded'
                    /\ Len(players'[cp].hand) = Len(players[cp].hand) - 1
                    /\ \A i \in DOMAIN players[cp].hand :
                          LET t == players[cp].hand[i]
                          IN  Count(players'[cp].hand, t) =
                                  Count(players[cp].hand, t) - (IF t = d THEN 1 ELSE 0)]_vars

\* C8's case: a seat has won by self-draw, holding its 14 tiles.
C8_Witness ==
    /\ pc = "done" /\ result = <<cp>>
    /\ Len(players[cp].hand) = 14
    /\ is_winning_hand(players[cp].hand)

\* C9: a discard that brings neither a win nor a claim passes the turn to
\* (p+1)%4, the seat that draws next; current_player stays in 0..3.
C9_TurnPasses ==
    /\ [](current_player \in 0..3)
    /\ [][(/\ pc = "discarded"
           /\ \A i \in Seats \ {cp} :
                 /\ ~is_winning_hand(players[i].hand \o <<last_discarded>>)
                 /\ Len(Matching(players[i].hand, last_discarded)) < 2)
          => (pc' = "loop" /\ current_player' = (cp + 1) % 4)]_vars
    /\ [][(pc = "loop" /\ pc' = "drawn") =>
             /\ Len(players'[current_player].hand) = Len(players[current_player].hand) + 1
             /\ \A i \in Seats \ {current_player} : players'[i] = players[i]]_vars

\* C9's case: the turn has passed from seat 3 round to seat 0, which drew.
C9_Witness ==
    /\ pc = "drawn" /\ ~claimed /\ cp = 0 /\ turn_count > 0
    /\ Len(players[3].discards) > 0

\* C10: in the batch engine every seat holds 13 tiles at the top of each
\* loop iteration; the drawing seat holds 14 after its draw and 13 again
\* after its discard.
C10_HandSizes ==
    /\ pc = "loop" => \A i \in Seats : Len(players[i].hand) = 13
    /\ pc = "drawn" =>
          /\ Len(players[cp].hand) = 14
          /\ \A i \in Seats \ {cp} : Len(players[i].hand) = 13
    /\ pc = "discarded" => \A i \in Seats : Len(players[i].hand) = 13

\* C10's case: a seat holds 14 tiles after a draw late in the game.
C10_Witness ==
    /\ pc = "drawn" /\ turn_count > 8
    /\ Len(players[cp].hand) = 14
    /\ Len(players[cp].discards) > 0

-----------------------------------------------------------------------------
(* interactive_game.py: InteractiveMahjongGame *)

\* The human's free inputs (an input other than the default one: discard
\* the tile just drawn, pass on a claim, declare a win) a game may hold.
MaxInputs == 1

\* The number of shuffles of the wall the interactive engine is started from.
NumIDeals == 18

\* The variables only the batch engine uses.
batch_vars == <<turn_count, claimed, result, main_vars>>

\* find_all_possible_melds trying the pung alone, never the chow.
RECURSIVE find_all_possible_melds_pungs(_)
find_all_possible_melds_pungs(tiles) ==
    IF Len(tiles) >= 3 /\ tiles[1] = tiles[2] /\ tiles[2] = tiles[3]
    THEN <<SubSeq(tiles, 1, 3)>> \o find_all_possible_melds_pungs(SubSeq(tiles, 4, Len(tiles)))
    ELSE <<>>

\* InteractiveMahjongGame.find_all_possible_melds: the list of melds.
RECURSIVE find_all_possible_melds(_)
find_all_possible_melds(tiles) ==
    IF tiles = <<>> THEN <<>>
    ELSE LET rest == SubSeq(tiles, 4, Len(tiles))
             pung ==
                 IF Len(tiles) >= 3 /\ tiles[1] = tiles[2] /\ tiles[2] = tiles[3]
                 THEN <<SubSeq(tiles, 1, 3)>> \o find_all_possible_melds(rest)
                 ELSE <<>>
             SameType(t) == t.type = tiles[1].type
             chow_tiles == SelectSeq(SubSeq(tiles, 1, 3), SameType)
             sorted_vals == SortInts([i \in DOMAIN chow_tiles |-> chow_tiles[i].value])
             chow ==
                 IF /\ Len(tiles) >= 3
                    /\ Len(sorted_vals) = 3
                    /\ sorted_vals[3] - sorted_vals[1] = 2
                 THEN <<SortTiles(chow_tiles)>> \o find_all_possible_melds(rest)
                 ELSE <<>>
         IN  pung \o chow

\* sum(len(meld) for meld in revealed_melds)
RECURSIVE revealed_tiles(_)
revealed_tiles(melds) ==
    IF melds = <<>> THEN 0 ELSE Len(Head(melds)) + revealed_tiles(Tail(melds))

\* check_win on the sorted hand.
check_win_sorted(sorted_hand, melds) ==
    /\ \E tile \in {sorted_hand[i] : i \in DOMAIN sorted_hand} :
          /\ Count(sorted_hand, tile) >= 2
          /\ Len(find_all_possible_melds(ListRemove(ListRemove(sorted_hand, tile), tile))) * 3
                 = Len(sorted_hand) - 2
    /\ Len(sorted_hand) + revealed_tiles(melds) >= 14

\* InteractiveMahjongGame.check_win, on a seat's hand and revealed melds.
check_win(hand, melds) == check_win_sorted(SortTiles(hand), melds)

\* The values of the tiles of a list that have the given type.
ValuesOfType(hand, type) == {hand[i].value : i \in {j \in DOMAIN hand : hand[j].type = type}}

\* A meld made without the discard that follows it.
meld_discard_none(ps, chosen) == [made |-> TRUE, ps |-> ps, dsc |-> NoTile]

\* The forced discard after a meld, with the agent's choice: the tile
\* leaves the hand for the discards; dsc is the tile, None when the hand
\* was empty.
meld_discard(ps, chosen) ==
    IF chosen.best_discard = NoTile
    THEN [made |-> TRUE, ps |-> ps, dsc |-> NoTile]
    ELSE [made |-> TRUE,
          ps |-> [ps EXCEPT !.hand = ListRemove(chosen.hand, chosen.best_discard),
                            !.discards = Append(@, chosen.best_discard)],
          dsc |-> chosen.best_discard]

\* What follows the meld search of _try_form_meld_ai and _handle_ai_claim:
\* with a meld made the agent chooses a discard, without one nothing moves.
after_meld(r) ==
    IF r.made
    THEN meld_discard(r.ps, choose_discard(r.ps.hand))
    ELSE [made |-> FALSE, ps |-> r.ps, dsc |-> NoTile]

\* The PlayerState with two tiles taken from the hand into a new meld.
with_meld(ps, t1, t2, meld) ==
    [ps EXCEPT !.hand = ListRemove(ListRemove(ps.hand, t1), t2),
               !.revealed_melds = Append(@, meld)]

\* The chow of _try_form_meld_ai with the run starting at start_value: the
\* first hand tiles with the two other values join the new tile.
form_chow(ps, new_tile, v1, v2) ==
    with_meld(ps, Tile(new_tile.type, v1), Tile(new_tile.type, v2),
              SortTiles(<<new_tile, Tile(new_tile.type, v1), Tile(new_tile.type, v2)>>))

\* The start values _try_form_meld_ai tries for the drawn tile:
\* range(max(1, v - 2), min(8, v + 1)), those with both other values in hand.
MeldStarts(hand, new_tile) ==
    {start_value \in (IF new_tile.value - 2 > 1 THEN new_tile.value - 2 ELSE 1)
                     ..((IF new_tile.value + 1 < 8 THEN new_tile.value + 1 ELSE 8) - 1) :
        (start_value..(start_value + 2)) \ {new_tile.value}
            \subseteq ValuesOfType(hand, new_tile.type)}

\* The meld search of _try_form_meld_ai on the seat's PlayerState, the drawn
\* tile already appended to the hand by draw_tile: [made, ps].
form_meld_ai(ps, new_tile, matching, starts) ==
    IF Len(matching) >= 2
    THEN [made |-> TRUE,
          ps |-> with_meld(ps, matching[1], matching[2],
                           <<matching[1], matching[2], new_tile>>)]
    ELSE IF starts # {}
    THEN [made |-> TRUE,
          ps |-> form_chow(ps, new_tile,
                           SetMin((SetMin(starts)..(SetMin(starts) + 2)) \ {new_tile.value}),
                           SetMin(((SetMin(starts)..(SetMin(starts) + 2)) \ {new_tile.value})
                                  \ {SetMin((SetMin(starts)..(SetMin(starts) + 2))
                                            \ {new_tile.value})}))]
    ELSE [made |-> FALSE, ps |-> ps]

\* InteractiveMahjongGame._try_form_meld_ai: [made, ps, dsc] (dsc: the tile
\* discarded after the meld, or None).
try_form_meld_ai(ps, new_tile) ==
    after_meld(form_meld_ai(ps, new_tile, Matching(ps.hand, new_tile),
                            MeldStarts(ps.hand, new_tile)))

\* The start values of the runs that hold the tile: range(v - 2, v + 1)
\* with start >= 1 and start + 2 <= 9.
ChowStarts(tile_value) ==
    {start \in (tile_value - 2)..tile_value : start >= 1 /\ start + 2 <= 9}

\* InteractiveMahjongGame._ai_can_claim
ai_can_claim(player_idx, tile) ==
    LET hand == players[player_idx].hand
    IN  \/ Len(Matching(hand, tile)) >= 2
        \/ /\ (player_idx - current_player) % 4 = 1
           /\ \E start \in ChowStarts(tile.value) :
                 (start..(start + 2)) \ {tile.value} \subseteq ValuesOfType(hand, tile.type)

\* sequence_tiles = [t for t in type_tiles if t.value in needed]
SequenceTiles(hand, tile, start) ==
    LET Needed(t) == /\ t.type = tile.type
                     /\ t.value \in ((start..(start + 2)) \ {tile.value})
    IN  SelectSeq(hand, Needed)

\* The start values for which _handle_ai_claim finds two sequence tiles.
ClaimStarts(hand, tile) ==
    {start \in ChowStarts(tile.value) : Len(SequenceTiles(hand, tile, start)) = 2}

\* The chow of _handle_ai_claim with its two sequence tiles.
claim_chow(ps, tile, sequence_tiles) ==
    with_meld(ps, sequence_tiles[1], sequence_tiles[2],
              SortTiles(<<tile>> \o sequence_tiles))

\* The meld search of _handle_ai_claim (pung first, else the first chow
\* with exactly two sequence tiles): [made, ps].
form_claim(ps, tile, matching, starts) ==
    IF Len(matching) >= 2
    THEN [made |-> TRUE,
          ps |-> with_meld(ps, matching[1], matching[2],
                           <<matching[1], matching[2], tile>>)]
    ELSE IF starts # {}
    THEN [made |-> TRUE,
          ps |-> claim_chow(ps, tile, SequenceTiles(ps.hand, tile, SetMin(starts)))]
    ELSE [made |-> FALSE, ps |-> ps]

\* Whether _handle_ai_claim makes a claim (returns True).
claim_made(ps, tile) ==
    Len(Matching(ps.hand, tile)) >= 2 \/ ClaimStarts(ps.hand, tile) # {}

\* InteractiveMahjongGame._handle_ai_claim on the claimant's PlayerState:
\* [made, ps, dsc] (dsc: the tile discarded after the claim, or None).
handle_ai_claim(ps, tile) ==
    after_meld(form_claim(ps, tile, Matching(ps.hand, tile), ClaimStarts(ps.hand, tile)))

\* InteractiveMahjongGame.can_claim_tile (the human seat 0)
can_claim_tile(tile) ==
    LET hand == players[0].hand
    IN  [pung |-> Len(Matching(hand, tile)) >= 2,
         chow |-> /\ current_player = 3
                  /\ \E start \in ChowStarts(tile.value) :
                        (start..(start + 2)) \ {tile.value}
                            \subseteq ValuesOfType(hand, tile.type)]

\* handle_chow_claim's possible_sequences, by their start values.
possible_sequences(hand, tile) ==
    {start \in ChowStarts(tile.value) :
        (start..(start + 2)) \ {tile.value} \subseteq ValuesOfType(hand, tile.type)}

\* _get_suggested_discards: its loop removes and re-appends the tiles of
\* the human hand as choose_discard's does, and leaves the list reordered.
suggested_discards_hand(hand) == choose_discard(hand).hand

\* random.shuffle(self.wall_tiles) as the generator seeded with 109 does it:
\* the positions, counted from 0, of the ordered tiles that make the wall.
seeded_positions ==
    <<90, 74, 71, 45, 11, 82, 52, 28, 27, 32, 67, 97, 88, 86, 24, 2, 20, 94,
       83, 98, 34, 47, 6, 96, 9, 73, 31, 60, 87, 0, 15, 16, 14, 77, 68, 101,
       69, 91, 4, 26, 48, 79, 93, 78, 37, 80, 55, 59, 81, 42, 62, 56, 41, 36,
       33, 100, 65, 13, 44, 76, 105, 53, 102, 61, 49, 50, 3, 5, 75, 19, 46, 89,
       18, 92, 51, 23, 17, 25, 43, 1, 22, 84, 8, 40, 95, 103, 39, 21, 85, 54,
       107, 99, 104, 30, 10, 66, 72, 38, 63, 64, 106, 12, 7, 70, 57, 58, 29, 35>>

seeded_shuffle == [i \in 1..108 |-> OrderedTiles[seeded_positions[i] + 1]]

\* The walls the shuffle of initialise_tiles leaves.
IWalls == {Shuffle(k) : k \in 1..NumIDeals} \cup {seeded_shuffle}

\* The state after InteractiveMahjongGame(): GameState.__init__ has
\* shuffled the wall.
IInit ==
    /\ wall_tiles \in IWalls
    /\ players = [i \in Seats |-> PlayerState]
    /\ current_player = 0
    /\ last_discarded = NoTile
    /\ game_ended = FALSE
    /\ pc = "start"
    /\ cp = 0
    /\ turn_count = 0
    /\ claimed = FALSE
    /\ result = <<>>
    /\ winning_player = <<>>
    /\ drawn_tile = NoTile
    /\ claimant = <<>>
    /\ inputs = 0
    /\ action = <<>>
    /\ wins = [i \in Seats |-> 0]
    /\ game_num = 0

\* start_game: initialise_tiles shuffles a new wall, deal_initial_hands.
IStart ==
    /\ pc = "start"
    /\ \E wall \in IWalls :
          /\ players' = [i \in Seats |-> [players[i] EXCEPT !.hand = DealtHand(wall, i)]]
          /\ wall_tiles' = SubSeq(wall, 53, 108)
    /\ pc' = "iloop"
    /\ UNCHANGED <<current_player, last_discarded, game_ended, cp, winning_player,
                   drawn_tile, claimant, inputs, action, batch_vars>>

\* The head of play_game's loop: the loop condition, the win check before
\* the draw, the check of the wall, and the dispatch on the seat.
ILoopTop ==
    /\ pc = "iloop"
    /\ claimant' = <<>>
    /\ IF game_ended
       THEN /\ pc' = "idone"
            /\ UNCHANGED <<cp, game_ended, winning_player>>
       ELSE /\ cp' = current_player
            /\ IF check_win(players[current_player].hand,
                            players[current_player].revealed_melds)
               THEN /\ game_ended' = TRUE
                    /\ winning_player' = <<current_player>>
                    /\ pc' = "idone"
               ELSE IF Len(wall_tiles) < 4
               THEN /\ game_ended' = TRUE
                    /\ pc' = "idone"
                    /\ UNCHANGED winning_player
               ELSE /\ pc' = IF current_player = 0 THEN "human_turn" ELSE "ai_turn"
                    /\ UNCHANGED <<game_ended, winning_player>>
    /\ UNCHANGED <<wall_tiles, players, current_player, last_discarded, drawn_tile,
                   inputs, action, batch_vars>>

\* handle_human_turn after the draw (hand: the hand with the tile drawn,
\* can_win: check_win(0)): the human's answer to "Declare win?", a "no"
\* being a free input, and the analysis.
human_drawn(hand, can_win) ==
    \E declare \in BOOLEAN :
        /\ declare => can_win
        /\ IF declare
           THEN /\ players' = [players EXCEPT ![0].hand = hand]
                /\ game_ended' = TRUE
                /\ winning_player' = <<0>>
                /\ pc' = "after_turn"
                /\ UNCHANGED inputs
           ELSE /\ players' = [players EXCEPT ![0].hand = suggested_discards_hand(hand)]
                /\ IF can_win
                   THEN inputs < MaxInputs /\ inputs' = inputs + 1
                   ELSE UNCHANGED inputs
                /\ pc' = "human_action"
                /\ UNCHANGED <<game_ended, winning_player>>

\* handle_human_turn up to the prompt for an action: the draw, the win
\* check with the human's answer, the analysis.
IHumanDraw ==
    /\ pc = "human_turn"
    /\ IF wall_tiles = <<>>
       THEN /\ game_ended' = TRUE
            /\ pc' = "after_turn"
            /\ UNCHANGED <<wall_tiles, players, drawn_tile, winning_player, inputs>>
       ELSE /\ wall_tiles' = Tail(wall_tiles)
            /\ drawn_tile' = Head(wall_tiles)
            /\ human_drawn(Append(players[0].hand, Head(wall_tiles)),
                           check_win(Append(players[0].hand, Head(wall_tiles)),
                                     players[0].revealed_melds))
    /\ UNCHANGED <<current_player, last_discarded, cp, claimant, action, batch_vars>>

\* process_player_action on a discard command naming a tile of the hand.
process_discard(tile) ==
    /\ players' = [players EXCEPT ![0].hand = ListRemove(@, tile),
                                  ![0].discards = Append(@, tile)]
    /\ last_discarded' = tile

\* The human's discard command: the tile just drawn, or as a free input the
\* first tile of the hand list.
IHumanDiscard ==
    /\ pc = "human_action"
    /\ \E free \in BOOLEAN :
          LET tile == IF free THEN players[0].hand[1] ELSE drawn_tile
          IN  /\ free => (inputs < MaxInputs /\ tile # drawn_tile)
              /\ inputs' = IF free THEN inputs + 1 ELSE inputs
              /\ process_discard(tile)
    /\ pc' = "after_turn"
    /\ UNCHANGED <<wall_tiles, current_player, game_ended, cp, winning_player,
                   drawn_tile, claimant, action, batch_vars>>

\* The text get_player_action returns, stripped and in lower case, is held
\* as the list action.split() of its parts, a part being the list of its
\* characters.
word_discard == <<"d", "i", "s", "c", "a", "r", "d">>
word_draw == <<"d", "r", "a", "w">>
word_hand == <<"h", "a", "n", "d">>
word_analysis == <<"a", "n", "a", "l", "y", "s", "i", "s">>
word_state == <<"s", "t", "a", "t", "e">>
word_show == <<"s", "h", "o", "w">>
word_pass == <<"p", "a", "s", "s">>

\* The decimal digits, the digit d at position d + 1.
DigitChars == <<"0", "1", "2", "3", "4", "5", "6", "7", "8", "9">>

\* The names of TileType in lower case.
type_name_lower(type) ==
    CASE type = "Wan"  -> <<"w", "a", "n">>
      [] type = "Tong" -> <<"t", "o", "n", "g">>
      [] type = "Tiao" -> <<"t", "i", "a", "o">>

\* str(tile) in lower case, as the human types a tile: "5-wan".
str_lower(tile) == <<DigitChars[tile.value + 1], "-">> \o type_name_lower(tile.type)

\* tile_str.split("-")
RECURSIVE split_dash(_)
split_dash(text) ==
    IF \A i \in DOMAIN text : text[i] # "-" THEN <<text>>
    ELSE LET i == CHOOSE i \in DOMAIN text :
                      text[i] = "-" /\ \A j \in 1..(i - 1) : text[j] # "-"
         IN  <<SubSeq(text, 1, i - 1)>> \o split_dash(SubSeq(text, i + 1, Len(text)))

\* int(value) of a text of decimal digits
RECURSIVE int_of(_)
int_of(text) ==
    IF text = <<>> THEN 0
    ELSE 10 * int_of(SubSeq(text, 1, Len(text) - 1))
         + (CHOOSE d \in 0..9 : DigitChars[d + 1] = text[Len(text)])

\* _parse_tile_input: None unless the text has two parts, the second being
\* value-type with a name of TileType and a number.
parse_tile_input(text) ==
    IF Len(text) # 2 THEN NoTile
    ELSE LET fields == split_dash(text[2])
         IN  IF Len(fields) # 2 THEN NoTile
             ELSE IF \A ty \in 1..3 : type_name_lower(TileTypes[ty]) # fields[2]
             THEN NoTile
             ELSE IF fields[1] = <<>>
                     \/ \E i \in DOMAIN fields[1] :
                           \A d \in 0..9 : DigitChars[d + 1] # fields[1][i]
             THEN NoTile
             ELSE Tile(CHOOSE type \in {TileTypes[ty] : ty \in 1..3} :
                           type_name_lower(type) = fields[2],
                       int_of(fields[1]))

\* A tile that is not in the hand: the first in the order of the tiles.
absent_tile(hand) ==
    OrderedTiles[CHOOSE i \in 1..108 :
                     /\ Count(hand, OrderedTiles[i]) = 0
                     /\ \A j \in 1..(i - 1) : Count(hand, OrderedTiles[j]) > 0]

\* The texts the human enters: the queries, an unknown command, the two
\* words of the help, discard commands without a tile, with a malformed
\* tile, with a third part, with a tile off the hand, with a value that is
\* no rank, and a discard command or another word in d with the tile drawn.
HumanActions ==
    {<<word_hand>>, <<word_analysis>>, <<word_state>>, <<word_pass>>,
     <<word_show, word_hand>>,
     <<word_discard>>,
     <<word_discard, <<"w", "a", "n", "-", "1">>>>,
     <<word_discard, <<"1", "w", "a", "n">>>>,
     <<word_discard, <<"1", "-", "w", "a", "n", "-", "2">>>>,
     <<word_discard, <<"0", "-", "w", "a", "n">>>>,
     <<word_discard, str_lower(drawn_tile), word_hand>>,
     <<word_discard, str_lower(absent_tile(players[0].hand))>>,
     <<word_discard, str_lower(drawn_tile)>>,
     <<word_draw, str_lower(drawn_tile)>>}

\* handle_human_turn's loop: action = self.get_player_action().  The
\* analysis changes the order of the hand list and counts as a free input.
IGetPlayerAction ==
    /\ pc = "human_action"
    /\ \E text \in HumanActions :
          /\ text = <<word_analysis>> => inputs < MaxInputs
          /\ inputs' = IF text = <<word_analysis>> THEN inputs + 1 ELSE inputs
          /\ action' = text
    /\ pc' = "process_player_action"
    /\ UNCHANGED <<wall_tiles, players, current_player, last_discarded, game_ended,
                   cp, winning_player, drawn_tile, claimant, batch_vars>>

\* process_player_action(text); pc' tells what it returns: True ends the
\* loop of handle_human_turn, False goes round it.
process_player_action(text) ==
    IF text # <<>> /\ text[1][1] = "d"
    THEN LET tile == parse_tile_input(text)
         IN  IF Count(players[0].hand, tile) > 0
             THEN /\ process_discard(tile)
                  /\ pc' = "after_turn"
             ELSE /\ UNCHANGED <<players, last_discarded>>
                  /\ pc' = "human_action"
    ELSE IF text = <<word_analysis>>
    THEN /\ players' = [players EXCEPT ![0].hand = suggested_discards_hand(@)]
         /\ UNCHANGED last_discarded
         /\ pc' = "human_action"
    ELSE /\ UNCHANGED <<players, last_discarded>>
         /\ pc' = "human_action"

\* handle_human_turn's loop: if self.process_player_action(action): break
IProcessPlayerAction ==
    /\ pc = "process_player_action"
    /\ process_player_action(action)
    /\ action' = <<>>
    /\ UNCHANGED <<wall_tiles, current_player, game_ended, cp, winning_player,
                   drawn_tile, claimant, inputs, batch_vars>>

\* handle_ai_turn: the draw and the win check.
IAiDraw ==
    /\ pc = "ai_turn"
    /\ IF wall_tiles = <<>>
       THEN /\ game_ended' = TRUE
            /\ pc' = "after_turn"
            /\ UNCHANGED <<wall_tiles, players, drawn_tile, winning_player>>
       ELSE /\ draw_tile(cp)
            /\ IF check_win(Append(players[cp].hand, Head(wall_tiles)),
                            players[cp].revealed_melds)
               THEN /\ game_ended' = TRUE
                    /\ winning_player' = <<cp>>
                    /\ pc' = "after_turn"
               ELSE /\ pc' = "ai_drawn"
                    /\ UNCHANGED <<game_ended, winning_player>>
    /\ UNCHANGED <<current_player, last_discarded, cp, claimant, inputs, action, batch_vars>>

\* The seat's PlayerState and last_discarded as a meld search with its
\* discard (r) leaves them.
apply_meld(player_idx, r) ==
    /\ players' = [players EXCEPT ![player_idx] = r.ps]
    /\ last_discarded' = IF r.dsc # NoTile THEN r.dsc ELSE last_discarded

\* handle_ai_turn: meld_formed = self._try_form_meld_ai(player_idx, drawn_tile)
IAiTryMeld ==
    /\ pc = "ai_drawn"
    /\ apply_meld(cp, try_form_meld_ai(players[cp], drawn_tile))
    /\ pc' = "ai_meld_tried"
    /\ UNCHANGED <<wall_tiles, current_player, game_ended, cp, winning_player,
                   drawn_tile, claimant, inputs, action, batch_vars>>

\* handle_ai_turn with the agent's choice at the end of the turn.
ai_discard(chosen) ==
    IF chosen.best_discard = NoTile
    THEN /\ pc' = "after_turn"
         /\ UNCHANGED <<players, last_discarded>>
    ELSE /\ discard_tile(cp, chosen.hand, chosen.best_discard)
         /\ pc' = "ai_scan"

\* handle_ai_turn: the discard at the end of the turn.
IAiDiscard ==
    /\ pc = "ai_meld_tried"
    /\ ai_discard(choose_discard(players[cp].hand))
    /\ UNCHANGED <<wall_tiles, current_player, game_ended, cp, winning_player,
                   drawn_tile, claimant, inputs, action, batch_vars>>

\* The order in which handle_ai_turn offers the discard of seat p.
ScanOrder(p) == [i \in 1..3 |-> (p + i) % 4]

\* Whether the scan ends at seat other_idx: the human seat with a claim to
\* offer, or an AI seat that can claim and whose _handle_ai_claim makes it.
ScanStops(other_idx) ==
    IF other_idx = 0
    THEN can_claim_tile(last_discarded).pung \/ can_claim_tile(last_discarded).chow
    ELSE /\ ai_can_claim(other_idx, last_discarded)
         /\ claim_made(players[other_idx], last_discarded)

\* The seat of a set of scan positions that comes first: <<seat>>, or <<>>.
FirstOf(p, hits) == IF hits = {} THEN <<>> ELSE <<ScanOrder(p)[SetMin(hits)]>>

\* The seat at which the scan of seat p's discard ends: <<seat>>, or <<>>
\* when nobody takes it.
ScanTarget(p) == FirstOf(p, {i \in 1..3 : ScanStops(ScanOrder(p)[i])})

\* The scan reaches the human seat, which has a claim: the human is asked.
IScanHuman ==
    /\ pc = "ai_scan"
    /\ ScanTarget(cp) = <<0>>
    /\ pc' = "human_claim"
    /\ UNCHANGED <<wall_tiles, players, current_player, last_discarded, game_ended,
                   cp, winning_player, drawn_tile, claimant, inputs, action, batch_vars>>

\* The claim of AI seat other_idx: meld, discard, current_player.
ai_claim(target) ==
    /\ target # <<>>
    /\ target # <<0>>
    /\ apply_meld(target[1], handle_ai_claim(players[target[1]], last_discarded))
    /\ current_player' = target[1]
    /\ claimant' = target

\* The scan reaches an AI seat that claims.
IScanAiClaim ==
    /\ pc = "ai_scan"
    /\ ai_claim(ScanTarget(cp))
    /\ pc' = "after_turn"
    /\ UNCHANGED <<wall_tiles, game_ended, cp, winning_player, drawn_tile, inputs,
                   action, batch_vars>>

\* Nobody claims: "If no one claimed, move to next player".
IScanNone ==
    /\ pc = "ai_scan"
    /\ ScanTarget(cp) = <<>>
    /\ current_player' = next_player(cp)
    /\ pc' = "after_turn"
    /\ UNCHANGED <<wall_tiles, players, last_discarded, game_ended, cp,
                   winning_player, drawn_tile, claimant, inputs, action, batch_vars>>

\* handle_claim_opportunity: the human passes (or cancels the chow).
IHumanPass ==
    /\ pc = "human_claim"
    /\ pc' = "after_turn"
    /\ UNCHANGED <<wall_tiles, players, current_player, last_discarded, game_ended,
                   cp, winning_player, drawn_tile, claimant, inputs, action, batch_vars>>

\* The discard the human must make after a claim, from the hand left: its
\* last tile, or as a free input its first.
claim_discard(hand, melds, free) ==
    LET tile == IF free THEN hand[1] ELSE hand[Len(hand)]
    IN  /\ players' = [players EXCEPT ![0].hand = ListRemove(hand, tile),
                                      ![0].revealed_melds = melds,
                                      ![0].discards = Append(@, tile)]
        /\ last_discarded' = tile
        /\ current_player' = 0

\* handle_pung_claim, a free input of the human.
IHumanPung ==
    /\ pc = "human_claim"
    /\ can_claim_tile(last_discarded).pung
    /\ inputs < MaxInputs
    /\ LET hand == players[0].hand
           matching == Matching(hand, last_discarded)
           hand2 == ListRemove(ListRemove(hand, matching[1]), matching[2])
           meld == <<matching[1], matching[2], last_discarded>>
       IN  \E free \in BOOLEAN :
              /\ free => (inputs + 1 < MaxInputs /\ hand2[1] # hand2[Len(hand2)])
              /\ inputs' = inputs + 1 + (IF free THEN 1 ELSE 0)
              /\ claim_discard(hand2, Append(players[0].revealed_melds, meld), free)
    /\ claimant' = <<0>>
    /\ pc' = "after_turn"
    /\ UNCHANGED <<wall_tiles, game_ended, cp, winning_player, drawn_tile, action, batch_vars>>

\* handle_chow_claim with one of the possible sequences chosen, a free
\* input of the human.
IHumanChow ==
    /\ pc = "human_claim"
    /\ can_claim_tile(last_discarded).chow
    /\ inputs < MaxInputs
    /\ LET hand == players[0].hand
           tile == last_discarded
       IN  \E start \in possible_sequences(hand, tile), free \in BOOLEAN :
              LET sequence == [i \in 1..3 |-> Tile(tile.type, start + i - 1)]
                  needed == (start..(start + 2)) \ {tile.value}
                  t1 == Tile(tile.type, SetMin(needed))
                  t2 == Tile(tile.type, SetMin(needed \ {t1.value}))
                  hand2 == ListRemove(ListRemove(hand, t1), t2)
              IN  /\ free => (inputs + 1 < MaxInputs /\ hand2[1] # hand2[Len(hand2)])
                  /\ inputs' = inputs + 1 + (IF free THEN 1 ELSE 0)
                  /\ claim_discard(hand2, Append(players[0].revealed_melds, sequence), free)
    /\ claimant' = <<0>>
    /\ pc' = "after_turn"
    /\ UNCHANGED <<wall_tiles, game_ended, cp, winning_player, drawn_tile, action, batch_vars>>

\* play_game after the turn: the win check, then "Update current player".
IAfterTurn ==
    /\ pc = "after_turn"
    /\ IF check_win(players[cp].hand, players[cp].revealed_melds)
       THEN /\ game_ended' = TRUE
            /\ winning_player' = <<cp>>
            /\ pc' = "idone"
            /\ UNCHANGED current_player
       ELSE /\ current_player' = next_player(cp)
            /\ pc' = "iloop"
            /\ UNCHANGED <<game_ended, winning_player>>
    /\ UNCHANGED <<wall_tiles, players, last_discarded, cp, drawn_tile, claimant,
                   inputs, action, batch_vars>>

INext ==
    \/ IStart
    \/ ILoopTop
    \/ IHumanDraw
    \/ IHumanDiscard
    \/ IGetPlayerAction
    \/ IProcessPlayerAction
    \/ IAiDraw
    \/ IAiTryMeld
    \/ IAiDiscard
    \/ IScanHuman
    \/ IScanAiClaim
    \/ IScanNone
    \/ IHumanPass
    \/ IHumanPung
    \/ IHumanChow
    \/ IAfterTurn

ISpec == IInit /\ [][INext]_vars

-----------------------------------------------------------------------------
(* The interactive engine's properties *)

\* C2: in every state of the interactive engine's play_game, also after an
\* AI claim, an AI meld with the drawn tile and a human pung or chow claim,
\* the wall, the hands, three tiles per revealed meld and the discard piles
\* add up to 108 tiles.
C2_InteractiveConservation ==
    pc \in {"iloop", "human_turn", "human_action", "ai_turn", "ai_drawn",
            "ai_meld_tried", "ai_scan", "human_claim", "after_turn", "idone"}
        => TileTotal = total_tiles

\* A claim of the discard is possible for seat i: two matching tiles in its
\* hand (pung), or the two other tiles of a run that holds the discard (chow).
ClaimPossible(i) ==
    \/ Len(Matching(players[i].hand, last_discarded)) >= 2
    \/ \E start \in ChowStarts(last_discarded.value) :
          (start..(start + 2)) \ {last_discarded.value}
              \subseteq ValuesOfType(players[i].hand, last_discarded.type)

\* C5: after AI seat p's discard the claim goes to the first seat in the
\* order (p+1)%4, (p+2)%4, (p+3)%4 for which a claim is possible (the human
\* seat being asked, an AI seat claiming), and to nobody when none can.
C5_FirstInScanClaims ==
    [][pc = "ai_scan" =>
          LET can == {j \in 1..3 : ClaimPossible(ScanOrder(cp)[j])}
          IN  IF can = {}
              THEN pc' = "after_turn" /\ claimant' = <<>>
              ELSE IF ScanOrder(cp)[SetMin(can)] = 0
              THEN pc' = "human_claim"
              ELSE claimant' = <<ScanOrder(cp)[SetMin(can)]>>]_vars

\* C6: after seat c has claimed seat p's discard and made its forced
\* discard, the turn is c's: the next seat to draw is (c+1)%4.
C6_TurnAfterClaim ==
    [][(/\ pc = "iloop"
        /\ claimant # <<>>
        /\ pc' \in {"human_turn", "ai_turn"})
          => cp' = (claimant[1] + 1) % 4]_vars

-----------------------------------------------------------------------------
(* mahjong_logic.py, MahjongAgent.evaluate_hand and MahjongAgent.choose_discard,
   applied to hands *)

\* The number of tile groups the hands are put together from.
NumParts == 13

\* len(tiles) != 14: the size of a hand is_winning_hand looks at.
hand_size == 14

\* The tile groups the hands are put together from, each at most once:
\* runs (one of them twice), a triplet, a pair, two tiles of a run with a
\* gap, and single tiles.
AllParts ==
    <<<<Tile("Wan", 1), Tile("Wan", 2), Tile("Wan", 3)>>,
      <<Tile("Wan", 1), Tile("Wan", 2), Tile("Wan", 3)>>,
      <<Tile("Wan", 4), Tile("Wan", 5), Tile("Wan", 6)>>,
      <<Tile("Wan", 7), Tile("Wan", 8), Tile("Wan", 9)>>,
      <<Tile("Tong", 1), Tile("Tong", 1), Tile("Tong", 1)>>,
      <<Tile("Tiao", 2), Tile("Tiao", 3), Tile("Tiao", 4)>>,
      <<Tile("Tong", 5), Tile("Tong", 5)>>,
      <<Tile("Wan", 1), Tile("Wan", 3)>>,
      <<Tile("Wan", 1)>>,
      <<Tile("Wan", 3)>>,
      <<Tile("Tong", 5)>>,
      <<Tile("Tong", 1)>>,
      <<Tile("Tiao", 9)>>,
      <<Tile("Wan", 2), Tile("Wan", 3), Tile("Wan", 4)>>>>

\* The variables the game engines use and an application of a function to
\* a hand leaves alone.
engine_vars == <<wall_tiles, current_player, last_discarded, game_ended, cp, claimed,
                 winning_player, drawn_tile, claimant, inputs, action, main_vars>>

\* No game is running: the hand of seat 0 is the list the functions are
\* applied to, and it starts empty.
LInit ==
    /\ wall_tiles = <<>>
    /\ players = [i \in Seats |-> PlayerState]
    /\ current_player = 0
    /\ last_discarded = NoTile
    /\ game_ended = FALSE
    /\ pc = "build"
    /\ cp = 0
    /\ turn_count = 1
    /\ claimed = FALSE
    /\ result = <<>>
    /\ winning_player = <<>>
    /\ drawn_tile = NoTile
    /\ claimant = <<>>
    /\ inputs = 0
    /\ action = <<>>
    /\ wins = [i \in Seats |-> 0]
    /\ game_num = 0

\* A group joins the hand: at most four copies of a tile, at most 14 tiles.
\* Groups join in the order of AllParts, turn_count being the lowest group
\* that may still join; the hand list is in no sorted order.
AddPart ==
    /\ pc = "build"
    /\ \E n \in turn_count..NumParts :
          /\ Len(hand_of(0)) + Len(AllParts[n]) <= hand_size
          /\ \A i \in DOMAIN AllParts[n] :
                Count(hand_of(0) \o AllParts[n], AllParts[n][i]) <= 4
          /\ players' = [players EXCEPT ![0].hand = @ \o AllParts[n]]
          /\ turn_count' = n + 1
    /\ UNCHANGED <<pc, result, engine_vars>>

\* MahjongLogic.can_form_melds on the sorted hand, as is_winning_hand calls
\* it; the return value is kept in result.
CanFormMelds ==
    /\ pc = "build"
    /\ pc' = "can_form_melds"
    /\ result' = <<can_form_melds(SortTiles(hand_of(0)))>>
    /\ UNCHANGED <<players, turn_count, engine_vars>>

\* MahjongLogic.is_winning_hand on the hand.
IsWinningHand ==
    /\ pc = "build"
    /\ pc' = "is_winning_hand"
    /\ result' = <<is_winning_hand(hand_of(0))>>
    /\ UNCHANGED <<players, turn_count, engine_vars>>

\* MahjongLogic.evaluate_waiting_tiles on the hand.
EvaluateWaitingTiles ==
    /\ pc = "build"
    /\ pc' = "evaluate_waiting_tiles"
    /\ result' = <<evaluate_waiting_tiles(hand_of(0))>>
    /\ UNCHANGED <<players, turn_count, engine_vars>>

\* MahjongLogic.find_all_melds on the hand.
FindAllMelds ==
    /\ pc = "build"
    /\ pc' = "find_all_melds"
    /\ result' = <<find_all_melds(hand_of(0))>>
    /\ UNCHANGED <<players, turn_count, engine_vars>>

\* MahjongAgent.evaluate_hand on the hand.
EvaluateHand ==
    /\ pc = "build"
    /\ pc' = "evaluate_hand"
    /\ result' = <<evaluate_hand(hand_of(0))>>
    /\ UNCHANGED <<players, turn_count, engine_vars>>

\* What a call of choose_discard leaves behind: the hand list of the seat as
\* the loop reordered it, and the returned tile in result.
choose_discard_returns(r) ==
    /\ players' = [players EXCEPT ![0].hand = r.hand]
    /\ result' = <<r.best_discard>>

\* MahjongAgent.choose_discard for seat 0, whose hand is the list.
ChooseDiscard ==
    /\ pc = "build"
    /\ pc' = "choose_discard"
    /\ choose_discard_returns(choose_discard(hand_of(0)))
    /\ UNCHANGED <<turn_count, engine_vars>>

\* A second call of choose_discard right after the first, nothing else
\* having touched the game state in between.
ChooseDiscardAgain ==
    /\ pc = "choose_discard"
    /\ pc' = "choose_discard_again"
    /\ choose_discard_returns(choose_discard(hand_of(0)))
    /\ UNCHANGED <<turn_count, engine_vars>>

LNext ==
    \/ AddPart
    \/ CanFormMelds
    \/ IsWinningHand
    \/ EvaluateWaitingTiles
    \/ FindAllMelds
    \/ EvaluateHand
    \/ ChooseDiscard
    \/ ChooseDiscardAgain

LSpec == LInit /\ [][LNext]_vars

-----------------------------------------------------------------------------
(* The properties of mahjong_logic.py, evaluate_hand and choose_discard *)

\* A valid meld: a triplet of one identity or a run of three consecutive
\* ranks in one suit.  A sorted tile list can be fully partitioned into
\* valid melds: its lowest tile is in a triplet or starts a run.
RECURSIVE Partitionable(_)
Partitionable(tiles) ==
    IF tiles = <<>> THEN TRUE
    ELSE LET t == tiles[1]
             next1 == Tile(t.type, t.value + 1)
             next2 == Tile(t.type, t.value + 2)
         IN  \/ /\ Count(tiles, t) >= 3
                /\ Partitionable(ListRemove(ListRemove(ListRemove(tiles, t), t), t))
             \/ /\ Count(tiles, next1) > 0
                /\ Count(tiles, next2) > 0
                /\ Partitionable(ListRemove(ListRemove(ListRemove(tiles, t), next1), next2))

\* The hand is four valid melds plus a pair.
FourMeldsAndPair(hand) ==
    /\ Len(hand) = 14
    /\ \E i \in DOMAIN hand :
          /\ Count(hand, hand[i]) >= 2
          /\ Partitionable(SortTiles(ListRemove(ListRemove(hand, hand[i]), hand[i])))

\* C11: a sorted tile list of a size divisible by 3 that can_form_melds
\* accepts can be fully partitioned into valid melds, and a hand that
\* is_winning_hand accepts is four valid melds plus a pair.
C11_DecompositionSound ==
    /\ (pc = "can_form_melds" /\ Len(hand_of(0)) % 3 = 0 /\ result = <<TRUE>>)
          => Partitionable(SortTiles(hand_of(0)))
    /\ (pc = "is_winning_hand" /\ result = <<TRUE>>) => FourMeldsAndPair(hand_of(0))

\* The reference procedure of the greedy policy: the lowest remaining tile
\* is grouped as a triplet with the next two tiles if they are identical,
\* else as a run with one remaining tile of rank+1 and one of rank+2 of its
\* suit, wherever they sit; it fails if neither applies.
RECURSIVE GreedyReference(_)
GreedyReference(tiles) ==
    IF tiles = <<>> THEN TRUE
    ELSE LET t == tiles[1]
             next1 == Tile(t.type, t.value + 1)
             next2 == Tile(t.type, t.value + 2)
         IN  IF Len(tiles) >= 3 /\ tiles[2] = t /\ tiles[3] = t
             THEN GreedyReference(SubSeq(tiles, 4, Len(tiles)))
             ELSE IF Count(tiles, next1) > 0 /\ Count(tiles, next2) > 0
             THEN GreedyReference(ListRemove(ListRemove(ListRemove(tiles, t), next1), next2))
             ELSE FALSE

\* C12: on every sorted tile list of a size divisible by 3, can_form_melds
\* returns what the reference procedure of the greedy policy returns.
C12_GreedyPolicy ==
    (pc = "can_form_melds" /\ Len(hand_of(0)) % 3 = 0)
        => result = <<GreedyReference(SortTiles(hand_of(0)))>>

\* The tile identities of a list.
Identities(tiles) == {tiles[i] : i \in DOMAIN tiles}

\* C13: is_winning_hand(tiles) is true exactly when tiles has 14 entries and
\* some identity with a count of 2 or more leaves, two copies removed, a
\* sorted remainder that can_form_melds accepts.
C13_PairTrial ==
    pc = "is_winning_hand" =>
        result = <<(/\ Len(hand_of(0)) = 14
                    /\ \E t \in Identities(hand_of(0)) :
                          /\ Count(hand_of(0), t) >= 2
                          /\ can_form_melds(
                                 SortTiles(ListRemove(ListRemove(hand_of(0), t), t))))>>

\* C13's case: a hand is accepted with one identity as the pair although
\* another identity with two or more copies fails as the pair.
C13_Witness ==
    /\ pc = "is_winning_hand" /\ result = <<TRUE>>
    /\ \E t \in Identities(hand_of(0)) :
          /\ Count(hand_of(0), t) >= 2
          /\ ~can_form_melds(SortTiles(ListRemove(ListRemove(hand_of(0), t), t)))

\* The reversed list.
Reverse(tiles) == [i \in DOMAIN tiles |-> tiles[Len(tiles) + 1 - i]]

\* The hand is four valid melds and a pair with no identity in two groups:
\* one identity twice, the identities of the triplets three times, and the
\* other identities, once each, forming runs.
DisjointMeldsAndPair(hand) ==
    LET Once(t) == Count(hand, t) = 1
    IN  /\ Len(hand) = 14
        /\ Cardinality({t \in Identities(hand) : Count(hand, t) = 2}) = 1
        /\ \A t \in Identities(hand) : Count(hand, t) <= 3
        /\ Partitionable(SortTiles(SelectSeq(hand, Once)))

\* C14: is_winning_hand returns true for every 14-tile hand of four valid
\* melds and a pair that share no identity, whatever the order of the list.
C14_DisjointGroupsWin ==
    (pc = "is_winning_hand" /\ DisjointMeldsAndPair(hand_of(0)))
        => /\ result = <<TRUE>>
           /\ is_winning_hand(Reverse(hand_of(0)))
           /\ is_winning_hand(Tail(hand_of(0)) \o <<Head(hand_of(0))>>)

\* C14's case: such a hand of four runs and a pair over the three suits,
\* its list not sorted, has been accepted.
C14_Witness ==
    /\ pc = "is_winning_hand" /\ result = <<TRUE>>
    /\ DisjointMeldsAndPair(hand_of(0))
    /\ \A t \in Identities(hand_of(0)) : Count(hand_of(0), t) <= 2
    /\ hand_of(0) # SortTiles(hand_of(0))
    /\ {hand_of(0)[i].type : i \in DOMAIN hand_of(0)} = {"Wan", "Tong", "Tiao"}

\* The 27 tile identities.
AllTiles == {Tile(TileTypes[ty], value) : ty \in 1..3, value \in Values}

\* C15: evaluate_waiting_tiles returns only identities whose addition makes
\* the hand four valid melds plus a pair, and for a 13-tile hand that
\* exactly one identity completes it returns exactly that identity.
C15_WaitingTiles ==
    pc = "evaluate_waiting_tiles" =>
        LET completing == {t \in AllTiles : FourMeldsAndPair(hand_of(0) \o <<t>>)}
        IN  /\ result[1] \subseteq completing
            /\ (Len(hand_of(0)) = 13 /\ Cardinality(completing) = 1)
                  => result = <<completing>>

\* The number of neighbours of one suit in the sorted hand whose ranks
\* differ by 2 or less: the adjacent pairs of the per-suit sorted rank lists.
CloseNeighbours(hand) ==
    LET sorted_hand == SortTiles(hand)
    IN  Cardinality({n \in 1..(Len(hand) - 1) :
                        /\ sorted_hand[n].type = sorted_hand[n + 1].type
                        /\ sorted_hand[n + 1].value - sorted_hand[n].value <= 2})

\* C19: evaluate_hand returns 20*M + 3*P + S, M the number of entries of
\* find_all_melds, P the number of identities held twice or more, S the
\* number of close neighbours; the tiles of rank 1 and 9 add nothing, and
\* the empty hand scores 0.
C19_ScoreFormula ==
    pc = "evaluate_hand" =>
        /\ result = <<20 * Len(find_all_melds(hand_of(0)))
                      + 3 * Cardinality({t \in Identities(hand_of(0)) :
                                            Count(hand_of(0), t) >= 2})
                      + CloseNeighbours(hand_of(0))>>
        /\ hand_of(0) = <<>> => result = <<0>>

\* C19's case: a hand with melds, pairs, close neighbours and tiles of rank
\* 1 and 9 has been scored.
C19_Witness ==
    /\ pc = "evaluate_hand"
    /\ Len(find_all_melds(hand_of(0))) > 1
    /\ \E t \in Identities(hand_of(0)) : Count(hand_of(0), t) = 2
    /\ \E t \in Identities(hand_of(0)) : t.value = 1
    /\ \E t \in Identities(hand_of(0)) : t.value = 9
    /\ result[1] > 40

\* The number of entries of a list equal to x.
Entries(list, x) == Cardinality({n \in DOMAIN list : list[n] = x})

\* C20: find_all_melds returns one triplet entry for each identity held
\* three times or more, four times included, one run entry for each suit
\* and start rank 1..7 whose three ranks are all held, and nothing else.
C20_AllMelds ==
    pc = "find_all_melds" =>
        /\ \A t \in AllTiles :
              Entries(result[1], <<t, t, t>>) = IF Count(hand_of(0), t) >= 3 THEN 1 ELSE 0
        /\ \A ty \in 1..3, start \in 1..7 :
              Entries(result[1], <<Tile(TileTypes[ty], start), Tile(TileTypes[ty], start + 1),
                                   Tile(TileTypes[ty], start + 2)>>)
                  = IF \A d \in 0..2 : Count(hand_of(0), Tile(TileTypes[ty], start + d)) >= 1
                    THEN 1 ELSE 0
        /\ \A n \in DOMAIN result[1] :
              \/ \E t \in AllTiles : result[1][n] = <<t, t, t>>
              \/ \E ty \in 1..3, start \in 1..7 :
                    result[1][n] = <<Tile(TileTypes[ty], start), Tile(TileTypes[ty], start + 1),
                                     Tile(TileTypes[ty], start + 2)>>

\* C20's case: an identity is held four times, and a run and a triplet
\* that share a tile are both listed.
C20_Witness ==
    /\ pc = "find_all_melds"
    /\ \E t \in Identities(hand_of(0)) :
          /\ Count(hand_of(0), t) = 4
          /\ Entries(result[1], <<t, t, t>>) = 1
    /\ \E t \in Identities(hand_of(0)) :
          /\ Count(hand_of(0), t) = 3
          /\ Entries(result[1], <<t, Tile(t.type, t.value + 1), Tile(t.type, t.value + 2)>>) = 1

\* The position in the hand of the tile choose_discard is to return: the
\* removal of the tile there scores highest over all positions, and no
\* earlier position scores as high.
BestPosition(hand) ==
    LET Score(i) == evaluate_hand(ListRemove(hand, hand[i]))
    IN  CHOOSE i \in DOMAIN hand :
            /\ \A j \in DOMAIN hand : Score(j) <= Score(i)
            /\ \A j \in 1..(i - 1) : Score(j) < Score(i)

\* C16: choose_discard returns the tile of the hand whose removal gives the
\* highest evaluate_hand score over all tiles of the hand, and among tiles
\* with the same best score the one earliest in the hand as it was at the
\* time of the call.
C16_BestDiscard ==
    [][(pc = "build" /\ pc' = "choose_discard" /\ hand_of(0) # <<>>)
          => result' = <<hand_of(0)[BestPosition(hand_of(0))]>>]_vars

\* C17: two consecutive calls of choose_discard for one seat, with nothing
\* between them, return the same tile.
C17_SameTileTwice ==
    [][(pc = "choose_discard" /\ pc' = "choose_discard_again")
          => result' = result]_vars

\* C18: choose_discard has no side effect on the game state: the wall, the
\* discards, the revealed melds, current_player and every hand, the order
\* of the tiles in the acting seat's hand included, are as before the call.
C18_NoSideEffect ==
    [][(pc = "build" /\ pc' = "choose_discard")
          => /\ players' = players
             /\ wall_tiles' = wall_tiles
             /\ current_player' = current_player
             /\ last_discarded' = last_discarded]_vars

-----------------------------------------------------------------------------
(* Melds, discard piles and the AI turn of the interactive engine *)

\* Three tiles of one identity, or three tiles of one suit with three
\* consecutive ranks.
TripletOrRun(meld) ==
    /\ Len(meld) = 3
    /\ \/ meld[1] = meld[2] /\ meld[2] = meld[3]
       \/ /\ meld[1].type = meld[2].type /\ meld[2].type = meld[3].type
          /\ \E v \in 1..7 : {meld[n].value : n \in 1..3} = {v, v + 1, v + 2}

\* C22: every meld appended to a seat's revealed_melds in the interactive
\* engine is a triplet or a run, and a meld once revealed is never changed
\* or removed.
C22_RevealedMeldsValid ==
    [][\A i \in Seats :
          LET old == players[i].revealed_melds
              new == players'[i].revealed_melds
          IN  /\ Len(new) >= Len(old)
              /\ SubSeq(new, 1, Len(old)) = old
              /\ \A m \in (Len(old) + 1)..Len(new) : TripletOrRun(new[m])]_vars

\* The discard piles after a step extend the piles before it.
DiscardsExtended ==
    \A i \in Seats :
        LET old == players[i].discards
            new == players'[i].discards
        IN  /\ Len(new) >= Len(old)
            /\ SubSeq(new, 1, Len(old)) = old

\* The two engines, each from its own start: a behaviour is a game of the
\* batch engine or a game of the interactive engine.
EnginesInit == Init \/ IInit

EnginesNext == Next \/ INext

EnginesSpec == EnginesInit /\ [][EnginesNext]_vars

\* C23: each seat's discard pile is append-only in both engines: across any
\* transition the previous contents of every pile remain a prefix of the
\* new contents, in the same order.
C23_DiscardsAppendOnly == [][DiscardsExtended]_vars

\* C23's case: an AI seat of the interactive engine that has discarded
\* before has claimed a discard and made its forced discard.
C23_Witness ==
    /\ pc = "after_turn"
    /\ claimant # <<>> /\ claimant # <<0>>
    /\ Len(players[claimant[1]].discards) >= 2
    /\ Len(players[cp].discards) >= 1

\* C30: in a handle_ai_turn in which the acting seat does not win, the seat
\* moves exactly one tile from its hand to its own discards: none while it
\* tries to form a meld with the tile it drew, and one at the end of the turn.
C30_OneDiscardPerAiTurn ==
    [][/\ pc = "ai_drawn" =>
             players'[cp].discards = players[cp].discards
       /\ pc = "ai_meld_tried" =>
             /\ Len(players'[cp].discards) = Len(players[cp].discards) + 1
             /\ Len(players'[cp].hand) = Len(players[cp].hand) - 1]_vars

-----------------------------------------------------------------------------
(* The end of the batch engine's play_game *)

\* C27: draw_tile on an empty wall is no error: it returns no tile and sets
\* game_ended, every hand, discard pile and meld staying as it is; and once
\* game_ended is set play_game makes no further draw or discard.
C27_EmptyWallDraw ==
    /\ [][(pc = "loop" /\ ~game_ended /\ turn_count < max_turns /\ wall_tiles = <<>>)
             => /\ game_ended'
                /\ drawn_tile' = NoTile
                /\ players' = players
                /\ wall_tiles' = wall_tiles]_vars
    /\ [][game_ended =>
             /\ players' = players
             /\ wall_tiles' = wall_tiles
             /\ last_discarded' = last_discarded]_vars

\* C27's case: the draw on the empty wall has happened, after every tile of
\* the wall was drawn and a discard made for it.
C27_Witness ==
    /\ game_ended /\ drawn_tile = NoTile
    /\ wall_tiles = <<>>
    /\ last_discarded # NoTile
    /\ Len(players[cp].hand) = 13

\* C29: every run of play_game terminates: each loop iteration ends the game
\* or removes one tile from the 56-tile wall, so there are at most 56 draws,
\* and the value returned is in {-1, 0, 1, 2, 3}.
C29_Terminates ==
    /\ <>(pc = "done")
    /\ [](pc = "done" => (Len(result) = 1 /\ result[1] \in -1..3))
    /\ [](pc # "deal" => (Len(wall_tiles) <= 56 /\ turn_count <= 56 - Len(wall_tiles)))
    /\ [][(pc = "loop" /\ pc' # "done") => Len(wall_tiles') = Len(wall_tiles) - 1]_vars

\* C29's case: play_game has returned after 56 draws.
C29_Witness ==
    /\ pc = "done" /\ turn_count = 56
    /\ Len(result) = 1 /\ result[1] \in Seats

\* C28: choose_discard for a seat whose hand is empty fails with an error:
\* it returns nothing, neither a tile nor None.
C28_EmptyHandFails ==
    [][(pc = "build" /\ pc' = "choose_discard" /\ hand_of(0) = <<>>)
          => result' = <<>>]_vars

-----------------------------------------------------------------------------
(* The batch driver's count of the wins *)

\* C21: in the batch driver a game whose result is -1 (no winner) adds to
\* no seat's win count, a game with a winner adds one to the winner's count
\* alone, and the loop goes on to the next game; so the counts sum to the
\* number of games that had a winner.
C21_NoWinnerNotCounted ==
    [][(pc = "done" /\ game_num' = game_num + 1) =>
          /\ wins' = IF result = <<-1>> THEN wins
                     ELSE [wins EXCEPT ![result[1]] = @ + 1]
          /\ pc' \in {"deal", "main_done"}]_vars

-----------------------------------------------------------------------------
(* MahjongAgent.calculate_tile_probabilities *)

\* Counter.update(tiles): one more of every tile of the list.  A Counter
\* reads 0 for a missing key, so it is a function on all tiles and its keys
\* are the tiles with a positive count.
RECURSIVE Counter_update(_, _)
Counter_update(counter, tiles) ==
    IF tiles = <<>> THEN counter
    ELSE Counter_update([counter EXCEPT ![Head(tiles)] = @ + 1], Tail(tiles))

\* for player in players: visible_tiles.update(player.discards), from seat i on
RECURSIVE update_discards(_, _)
update_discards(counter, i) ==
    IF i \notin Seats THEN counter
    ELSE update_discards(Counter_update(counter, players[i].discards), i + 1)

\* for meld in player.revealed_melds: visible_tiles.update(meld)
RECURSIVE update_melds(_, _)
update_melds(counter, melds) ==
    IF melds = <<>> THEN counter
    ELSE update_melds(Counter_update(counter, Head(melds)), Tail(melds))

\* for player in players: the update of the revealed melds, from seat i on
RECURSIVE update_revealed(_, _)
update_revealed(counter, i) ==
    IF i \notin Seats THEN counter
    ELSE update_revealed(update_melds(counter, players[i].revealed_melds), i + 1)

\* The Counter visible_tiles of the agent of seat player_idx: the discards
\* of all seats, the revealed melds of all seats, the agent's own hand.
visible_tiles(player_idx) ==
    Counter_update(
        update_revealed(update_discards([tile \in AllTiles |-> 0], 0), 0),
        players[player_idx].hand)

\* sum(visible_tiles.values())
sum_values(counter) ==
    LET Value(tile) == counter[tile] IN SumOver(Value, AllTiles)

\* calculate_tile_probabilities counting the 136 tiles of a set with
\* honours as the total.
calculate_tile_probabilities_136(player_idx) ==
    LET visible == visible_tiles(player_idx)
        unknown == 136 - sum_values(visible)
    IN  [visible_tiles |-> visible,
         total_unknown |-> unknown,
         returned |->
             IF unknown <= 0
             THEN [tile \in {t \in AllTiles : visible[t] > 0} |-> [num |-> 0, den |-> 1]]
             ELSE [tile \in AllTiles
                      |-> [num |-> IF 4 - visible[tile] > 0 THEN 4 - visible[tile] ELSE 0,
                           den |-> unknown]]]

\* MahjongAgent.calculate_tile_probabilities for the seat's agent: the
\* locals visible_tiles and total_unknown when it returns, and the returned
\* dictionary, a probability being the fraction num / den.  With no unknown
\* tile left the keys are the keys of the Counter, else all tiles.
calculate_tile_probabilities(player_idx) ==
    LET visible == visible_tiles(player_idx)
        unknown == 3 * 9 * 4 - sum_values(visible)
    IN  [visible_tiles |-> visible,
         total_unknown |-> unknown,
         returned |->
             IF unknown <= 0
             THEN [tile \in {t \in AllTiles : visible[t] > 0} |-> [num |-> 0, den |-> 1]]
             ELSE [tile \in AllTiles
                      |-> [num |-> IF 4 - visible[tile] > 0 THEN 4 - visible[tile] ELSE 0,
                           den |-> unknown]]]

\* The returned dictionary gives probability 0 to every tile with four or
\* more visible copies, and to all tiles when no tile is unknown.
ZeroWhereAllVisible(call) ==
    \A tile \in AllTiles :
        (call.visible_tiles[tile] >= 4 \/ call.total_unknown <= 0)
            => (tile \in DOMAIN call.returned /\ call.returned[tile].num = 0)

\* C24: for every seat, calculate_tile_probabilities gives probability 0 to
\* every tile identity with four or more visible copies, and with
\* total_unknown <= 0 it gives probability 0 to every one of the 27
\* identities.
C24_ZeroProbabilities ==
    \A player_idx \in Seats :
        ZeroWhereAllVisible(calculate_tile_probabilities(player_idx))

\* Every value of the returned dictionary lies in [0, 1].
InUnitInterval(call) ==
    \A tile \in DOMAIN call.returned :
        /\ 0 <= call.returned[tile].num
        /\ call.returned[tile].num <= call.returned[tile].den

\* C25: for every seat with total_unknown > 0, every value returned by
\* calculate_tile_probabilities lies in [0, 1]: the remaining copies of a
\* tile are not more than the unknown tiles.
C25_ProbabilitiesAtMostOne ==
    \A player_idx \in Seats :
        LET call == calculate_tile_probabilities(player_idx)
        IN  call.total_unknown > 0 => InUnitInterval(call)


-----------------------------------------------------------------------------
(* The human's texts that are no discard *)

\* The text is a discard command, the word discard and a tile value-type,
\* that names a tile of the hand.
WellFormedDiscard(text, hand) ==
    /\ Len(text) = 2
    /\ text[1] = word_discard
    /\ \E tile \in AllTiles : text[2] = str_lower(tile) /\ Count(hand, tile) > 0

\* No tile moves: the wall, the discard piles and the melds are as they
\* were and every hand holds the same tiles; last_discarded, current_player
\* and the terminal flag are as they were.
NoTileMoves ==
    /\ wall_tiles' = wall_tiles
    /\ \A i \in Seats :
          /\ \A tile \in AllTiles : Count(players'[i].hand, tile) = Count(players[i].hand, tile)
          /\ Len(players'[i].hand) = Len(players[i].hand)
          /\ players'[i].discards = players[i].discards
          /\ players'[i].revealed_melds = players[i].revealed_melds
    /\ last_discarded' = last_discarded
    /\ current_player' = current_player
    /\ game_ended' = game_ended

\* C26: for every text of the human that is not a well-formed discard of a
\* tile of seat 0's hand (unparsable text, a tile not in the hand, a query,
\* an unknown command), process_player_action returns False, the turn is
\* not complete, and no tile moves between wall, hands, discard piles and
\* melds; last_discarded, current_player and the terminal flag stay.
C26_RejectedTextMovesNothing ==
    [][(pc = "process_player_action" /\ ~WellFormedDiscard(action, players[0].hand))
          => (pc' = "human_action" /\ NoTileMoves)]_vars


-----------------------------------------------------------------------------
(* The turn limit of the batch engine *)

\* C31: the turn limit of play_game is never the reason the game stops:
\* turn_count is at most 56, below max_turns, in every reachable state, and
\* when the loop is left at its head (no win, no failed discard choice) the
\* loop condition still held on the turns and the wall is exhausted.
C31_TurnLimitNeverStops ==
    /\ [](turn_count <= 56 /\ 56 < max_turns)
    /\ [][(pc = "loop" /\ pc' = "done")
             => (turn_count < max_turns /\ wall_tiles = <<>> /\ game_ended')]_vars

C31_Witness ==
    /\ pc = "done"
    /\ game_ended
    /\ wall_tiles = <<>>
    /\ turn_count = 56
    /\ drawn_tile = NoTile


-----------------------------------------------------------------------------
(* The order of the claim scan of the batch engine *)

\* The copies of a tile in the wall, the hands and the discard piles.
Copies(tile) ==
    LET InHand(i) == Count(players[i].hand, tile)
        InDiscards(i) == Count(players[i].discards, tile)
    IN  Count(wall_tiles, tile) + SumOver(InHand, Seats) + SumOver(InDiscards, Seats)

\* The first seat that can claim, scanning in turn order from the seat
\* after the discarder p: (p+1)%4, (p+2)%4, (p+3)%4.
FirstInTurnOrder(p, claimers) ==
    LET n == CHOOSE n \in 1..3 :
                 /\ (p + n) % 4 \in claimers
                 /\ \A k \in 1..(n - 1) : (p + k) % 4 \notin claimers
    IN  (p + n) % 4

\* C32: in every state of the batch engine's play_game each tile identity
\* has exactly 4 copies over wall, hands and discard piles; so at most one
\* seat other than the discarder holds two or more copies of a discarded
\* tile, and the seat the scan in index order awards the claim to is the
\* seat a scan in turn order would award it to.
C32_ScanOrderIrrelevant ==
    /\ \A tile \in AllTiles : Copies(tile) = 4
    /\ pc = "discarded" =>
          /\ Cardinality(Claimers) <= 1
          /\ Claimers # {} => SetMin(Claimers) = FirstInTurnOrder(cp, Claimers)

\* C32's case: a discard of seat 2 or 3 that a seat before it in index
\* order and not next in turn can claim.
C32_Witness ==
    /\ pc = "discarded"
    /\ Claimers # {}
    /\ SetMin(Claimers) < cp
    /\ SetMin(Claimers) # next_player(cp)
    /\ DiscardWinners = {}


-----------------------------------------------------------------------------
(* The hand sizes of the interactive engine *)

\* C33: in the interactive engine, at the start of every iteration of
\* play_game each seat has |concealed hand| + 3 * |revealed melds| = 13,
\* whatever draws, discards, AI claims, AI melds and human claims or passes
\* happened before.
C33_ThirteenAtLoopTop ==
    pc = "iloop" =>
        \A i \in Seats :
            Len(players[i].hand) + 3 * Len(players[i].revealed_melds) = 13

\* C33's case: an iteration starts after the human and two AI seats have
\* revealed melds, one of them two or more.
C33_Witness ==
    /\ pc = "iloop"
    /\ ~game_ended
    /\ Len(players[0].revealed_melds) >= 1
    /\ \E i, j \in 1..3 :
          /\ i # j
          /\ Len(players[i].revealed_melds) >= 2
          /\ Len(players[j].revealed_melds) >= 1



-----------------------------------------------------------------------------
(* The two win checks *)

\* C34: the two win checks agree: on 14 concealed tiles and no revealed
\* meld the interactive engine's check_win is true exactly when
\* MahjongLogic.is_winning_hand is true on the same tiles.
C34_WinChecksAgree ==
    (pc = "is_winning_hand" /\ Len(hand_of(0)) = 14)
        => result = <<check_win(hand_of(0), <<>>)>>

\* C34's case: both checks accept a 14-tile list that is not in sorted
\* order and in which an identity held twice fails as the pair.
C34_Witness ==
    /\ pc = "is_winning_hand"
    /\ Len(hand_of(0)) = 14
    /\ hand_of(0) # SortTiles(hand_of(0))
    /\ result = <<TRUE>>
    /\ check_win(hand_of(0), <<>>)
    /\ \E t \in Identities(hand_of(0)) :
          /\ Count(hand_of(0), t) >= 2
          /\ Len(find_all_possible_melds(
                     SortTiles(ListRemove(ListRemove(hand_of(0), t), t)))) # 4


-----------------------------------------------------------------------------
(* The sum of the probabilities *)

\* A float in [0, 8) is held exactly as the list of four digits to the base
\* 2^20 of its multiple of 2^60: the integer part and 60 binary places.
RECURSIVE Pow2(_)
Pow2(k) == IF k = 0 THEN 1 ELSE 2 * Pow2(k - 1)

Limb == Pow2(20)

\* floor(num * 2^60 / den) by long division, and the last remainder.
quotient(num, den) ==
    LET r1 == (num % den) * Limb
        r2 == (r1 % den) * Limb
        r3 == (r2 % den) * Limb
    IN  [digits |-> <<num \div den, r1 \div den, r2 \div den, r3 \div den>>,
         rest |-> r3 % den]

\* The carries of a list of four digits taken upwards.
carry(d) ==
    LET c4 == d[4] \div Limb
        c3 == (d[3] + c4) \div Limb
        c2 == (d[2] + c3) \div Limb
    IN  <<d[1] + c2, (d[2] + c3) % Limb, (d[3] + c4) % Limb, d[4] % Limb>>

\* remaining / total_unknown: Python's true division of two small ints, the
\* double nearest to the quotient, ties to the even mantissa.  A quotient
\* in [2^e, 2^(e+1)) keeps 53 bits, down to 2^(e-52): the last 8 + e of the
\* 60 binary places are rounded away.
true_div(num, den) ==
    IF num = 0 THEN <<0, 0, 0, 0>>
    ELSE LET e == CHOOSE e \in -8..2 :
                      /\ Pow2(e + 8) * den <= num * 256
                      /\ num * 256 < Pow2(e + 9) * den
             q == quotient(num, den)
             unit == Pow2(8 + e)
             low == q.digits[4] % unit
             kept == q.digits[4] - low
             up == \/ 2 * low > unit
                   \/ 2 * low = unit /\ q.rest # 0
                   \/ 2 * low = unit /\ q.rest = 0 /\ (kept \div unit) % 2 = 1
         IN  carry([q.digits EXCEPT ![4] = kept + (IF up THEN unit ELSE 0)])

\* The exact sum of the floats of a returned dictionary.
sum_of_floats(returned) ==
    LET Digit1(tile) == true_div(returned[tile].num, returned[tile].den)[1]
        Digit2(tile) == true_div(returned[tile].num, returned[tile].den)[2]
        Digit3(tile) == true_div(returned[tile].num, returned[tile].den)[3]
        Digit4(tile) == true_div(returned[tile].num, returned[tile].den)[4]
    IN  carry(<<SumOver(Digit1, DOMAIN returned), SumOver(Digit2, DOMAIN returned),
                SumOver(Digit3, DOMAIN returned), SumOver(Digit4, DOMAIN returned)>>)

\* Every tile has at most 4 visible copies and some tile is unknown.
AtMostFourVisible(call) ==
    /\ call.total_unknown > 0
    /\ \A tile \in AllTiles : call.visible_tiles[tile] <= 4

\* The remaining copies of the 27 tiles add up to total_unknown.
RemainingIsUnknown(call) ==
    LET Remaining(tile) == call.returned[tile].num
    IN  /\ DOMAIN call.returned = AllTiles
        /\ \A tile \in AllTiles : call.returned[tile].den = call.total_unknown
        /\ SumOver(Remaining, AllTiles) = call.total_unknown

\* C35 as stated: for every seat, with at most 4 visible copies of every
\* tile and total_unknown > 0, the remaining copies of the 27 tiles add up
\* to total_unknown and the returned probabilities sum to exactly 1.
C35_ProbabilitiesSumToOne ==
    \A player_idx \in Seats :
        LET call == calculate_tile_probabilities(player_idx)
        IN  AtMostFourVisible(call)
                => /\ RemainingIsUnknown(call)
                   /\ sum_of_floats(call.returned) = <<1, 0, 0, 0>>

\* C35, amended: for every seat, with at most 4 visible copies of every tile
\* and total_unknown > 0, the remaining copies of the 27 tiles add up to
\* total_unknown, and the returned floats, each the double nearest to its
\* quotient, sum to 1 within 27 * 2^-54.
C35_ProbabilitiesSumNearOne ==
    \A player_idx \in Seats :
        LET call == calculate_tile_probabilities(player_idx)
            total == sum_of_floats(call.returned)
        IN  AtMostFourVisible(call)
                => /\ RemainingIsUnknown(call)
                   /\ \/ total[1] = 1 /\ total[2] = 0 /\ total[3] = 0 /\ total[4] <= 27 * 64
                      \/ /\ total[1] = 0 /\ total[2] = Limb - 1 /\ total[3] = Limb - 1
                         /\ total[4] >= Limb - 27 * 64

\* C35's case: after draws, discards and a claim the floats of seat 0's
\* agent do not sum to 1.
C35_Witness ==
    /\ pc = "loop" /\ claimed
    /\ Len(players[0].discards) >= 2
    /\ AtMostFourVisible(calculate_tile_probabilities(0))
    /\ sum_of_floats(calculate_tile_probabilities(0).returned) # <<1, 0, 0, 0>>

=============================================================================
